---- MODULE Spec2Model ----
(***************************************************************************)
(* Model of the retrieval core of the memory assistant backend:            *)
(*   backend/app/services/embedding_service.py  (EmbeddingService)         *)
(*   backend/app/services/search_service.py     (SearchService)            *)
(*   backend/app/services/vector_service.py     (VectorService)            *)
(*   backend/app/routers/search.py              (POST /search/hybrid)      *)
(*                                                                         *)
(* Floats are modelled as integers in hundredths (0.7 is 70, 1.0 is 100);  *)
(* a product of a score and a weight is therefore in ten-thousandths.      *)
(* Embedding vectors are abstract values 1..NumVec.  Python lists are      *)
(* sequences, a Python dict is a function whose DOMAIN is its key set, and *)
(* an optional value is a sequence of length 0 or 1.                       *)
(***************************************************************************)
EXTENDS Integers, Sequences, FiniteSets, TLC

(***************************************************************************)
(* Bounds of the model.                                                    *)
(***************************************************************************)
NumVec == 2
MaxCalls == 3
MaxTexts == 3
MaxBatch == 2
NumPoints == 2
MaxQueries == 2
NumCallers == 2
NumInvokers == 3
MaxUuids == 2
MaxRows == 2

Texts == {"a", "b"}
Vectors == 1..NumVec
PointIds == 1..NumPoints
Callers == 1..NumCallers
Invokers == 1..NumInvokers

\* config.py line 20: VECTOR_SIZE, the length of every vector of the provider
VECTOR_SIZE == 1536

\* config.py line 16: OPENAI_MODEL, the model of EmbeddingService (line 16)
OPENAI_MODEL == "text-embedding-ada-002"

\* The list of floats a vector of the provider is: VECTOR_SIZE components
Components(v) == [k \in 1..VECTOR_SIZE |-> v]

\* Payload fields and their values; a metadata dict maps some fields to values
Fields == {"kind", "year"}
FieldValues == {1, 2}
Metadata == {[kind |-> 1], [kind |-> 2, year |-> 1]}
AgentNames == {"Cara", "Penny"}

\* config.py line 11: COLLECTION_NAME, and base_agent.py line 15: agent_<name>
COLLECTION_NAME == "memories"
Lower(name) == CASE name = "Cara" -> "cara" [] name = "Penny" -> "penny"

CollectionName(name) ==
    CASE Lower(name) = "cara" -> "agent_cara" [] Lower(name) = "penny" -> "agent_penny"

AgentCollections == {CollectionName(name) : name \in AgentNames}

\* config.py: SIMILARITY_THRESHOLD = 0.7
SIMILARITY_THRESHOLD == 70

\* Cosine scores a stored point can have against the query vector, and the
\* scores the text-match search can give it (0: the text filter does not match).
SemScores == {50, 70, 90}
LexScores == {0, 80}

\* (semantic_weight, text_weight) pairs given by callers; 0.7/0.3 is the default.
\* No pair lies within one float rounding error of the 0.01 tolerance.
WeightPairs == {<<70, 30>>, <<50, 60>>}
Limits == {1, 2}
HybridQueries == {"a"}

\* embedding_service.py line 50: batch_size: int = 100
DefaultBatchSize == 100

\* The vector the provider gives for a hybrid query: sem_score holds the scores
\* of the stored points against it.
QueryVector == 1

VARIABLES
    embedding_cache,   \* EmbeddingService.embedding_cache: text -> vector
    ret,               \* what the last operation returned to its caller, and the provider's answer to it
    warm,              \* history: text -> vector of the last successful cached embed since the last flush
    cached_calls,      \* history: text -> provider calls made by cached embeds since the last flush
    cached_ok,         \* history: text -> successful ones among cached_calls
    eb_pc,             \* get_embeddings: "idle", "sleep" (suspended in asyncio.sleep), "done", "error"
    eb_texts,          \* get_embeddings: the texts argument
    eb_batch_size,     \* get_embeddings: the batch_size argument
    eb_i,              \* get_embeddings: the loop variable i (0-based offset)
    all_embeddings,    \* get_embeddings: the local list all_embeddings
    eb_ret,            \* get_embeddings: the returned list, if it returned one
    eb_log,            \* history: provider calls and pauses of the running get_embeddings
    sem_score,         \* vector store: point -> cosine score against the query vector
    lex_score,         \* vector store: point -> score under the content text-match filter
    notes,             \* relational store: the vector ids that have a Note row
    hs_ret,            \* the last hybrid search: arguments, external calls made, outcome
    bs_pc,             \* batch_search: "idle", "gather" (awaiting asyncio.gather), "done", "error"
    bs_queries,        \* batch_search: the queries argument
    search_tasks,      \* batch_search: the list search_tasks, with what became of each task
    bs_ret,            \* batch_search: the returned list, if it returned one
    em_ret,            \* get_embeddings_with_metadata: the returned list, if it returned one
    embed_calls,       \* concurrent get_embedding calls: caller -> position, arguments, result
    provided,          \* history: text -> the vectors the provider returned for it to those calls
    collections,       \* Qdrant: the names of the collections that exist
    created,           \* history: collection name -> create_collection calls that created it
    ensure_calls,      \* _ensure_collection_exists invocations: invoker -> position, collection
    points,            \* Qdrant, collection COLLECTION_NAME: point id -> vector and payload
    agent_points,      \* Qdrant, collections of the agents: name -> (point id -> vector and payload)
    uuids,             \* the number of uuid4 values drawn so far
    vs_ret,            \* the last store operation: arguments, store call outcome, result
    sv_ret,            \* the last search_vectors / semantic_search: arguments, what was sent, result
    val_ret,           \* the last validate_embedding: its argument and what it returned
    remembered,        \* history: agent collection -> the texts store_memory has stored in it
    conversations,     \* relational store: the Conversation rows, by ascending id
    note_rows,         \* relational store: the Note rows of the agents, by ascending id
    ag_ret,            \* the last agent operation: arguments, external calls in order, result
    cb_ret,            \* the last _combine_search_results: its arguments and the list returned
    db_notes,          \* relational store: the Note rows of routers/notes.py, id -> row
    note_ids,          \* relational store: the number of Note ids given out so far
    nt_ret             \* the last request to routers/notes.py: arguments, calls made, result

embedVars == <<embedding_cache, ret, warm, cached_calls, cached_ok>>
batchEmbedVars == <<eb_pc, eb_texts, eb_batch_size, eb_i, all_embeddings, eb_ret, eb_log>>
storeVars == <<sem_score, lex_score, notes>>
batchSearchVars == <<bs_pc, bs_queries, search_tasks, bs_ret>>
concVars == <<embed_calls, provided>>
collVars == <<collections, created, ensure_calls>>
pointVars == <<points, agent_points, uuids, vs_ret>>
searchVars == <<sv_ret>>
validVars == <<val_ret>>
agentVars == <<remembered, conversations, note_rows, ag_ret>>
combineVars == <<cb_ret>>
noteVars == <<db_notes, note_ids, nt_ret>>
lateVars == <<validVars, agentVars, combineVars, noteVars>>
extVars == <<em_ret, concVars, collVars, pointVars, searchVars, lateVars>>
vars == <<embedVars, batchEmbedVars, storeVars, extVars, hs_ret, batchSearchVars>>

(***************************************************************************)
(* Python dict helpers.                                                    *)
(***************************************************************************)
EmptyDict == [k \in {} |-> {}]

Min(a, b) == IF a < b THEN a ELSE b

\* Python s[lo:hi] for 0 <= lo <= hi
Slice(s, lo, hi) == SubSeq(s, lo + 1, Min(hi, Len(s)))

\* all sequences over S of length at most n
SeqsUpTo(S, n) == UNION {[1..k -> S] : k \in 0..n}

DictSet(d, k, v) == [x \in (DOMAIN d) \cup {k} |-> IF x = k THEN v ELSE d[x]]

(***************************************************************************)
(* The embedding provider (client.embeddings.create) answers a single text *)
(* with a vector, with a payload holding no vector, or fails.              *)
(***************************************************************************)
ProviderAnswers == [kind : {"ok"}, vec : Vectors]
                   \cup [kind : {"fail", "empty"}, vec : {0}]

(***************************************************************************)
(* EmbeddingService.get_embedding                                          *)
(***************************************************************************)
\* mutant: the cache is never consulted
CacheHit_Never(cache, text, use_cache) == FALSE

\* mutant: a cached text is answered from the cache whatever use_cache says
CacheHit_IgnoreFlag(cache, text, use_cache) == text \in DOMAIN cache

\* line 32: if use_cache and text in self.embedding_cache
CacheHit(cache, text, use_cache) == use_cache /\ text \in DOMAIN cache

\* mutant: the result is stored whatever use_cache says
CacheStore_Always(cache, text, use_cache, vec) == DictSet(cache, text, vec)

\* lines 43-44: if use_cache: self.embedding_cache[text] = embedding
CacheStore(cache, text, use_cache, vec) ==
    IF use_cache THEN DictSet(cache, text, vec) ELSE cache

\* mutant: the entry is written as soon as the provider answers, before the
\* payload is found to hold no vector
AfterProvider_CacheBeforeCheck(cache, text, use_cache, answer) ==
    IF answer.kind = "ok"
    THEN [cache |-> CacheStore(cache, text, use_cache, answer.vec),
          outcome |-> "ok", value |-> <<answer.vec>>, provider |-> TRUE]
    ELSE [cache |-> CacheStore(cache, text, use_cache, answer.vec),
          outcome |-> "error", value |-> <<>>, provider |-> TRUE]

\* lines 35-48, once client.embeddings.create has answered
AfterProvider(cache, text, use_cache, answer) ==
    IF answer.kind = "ok"
    THEN [cache |-> CacheStore(cache, text, use_cache, answer.vec),
          outcome |-> "ok", value |-> <<answer.vec>>, provider |-> TRUE]
    ELSE \* lines 47-48: a provider failure, or response.data[0] raising on an
         \* empty payload, is re-raised as Exception
         [cache |-> cache, outcome |-> "error", value |-> <<>>, provider |-> TRUE]

\* lines 31-48 as a function of the cache and of the provider's answer: the
\* new cache, the outcome, the returned vector and whether the provider was called
Embed(cache, text, use_cache, answer) ==
    IF CacheHit(cache, text, use_cache)
    THEN [cache |-> cache, outcome |-> "ok", value |-> <<cache[text]>>,
          provider |-> FALSE]
    ELSE AfterProvider(cache, text, use_cache, answer)

get_embedding(text, use_cache, answer) ==
    LET e == Embed(embedding_cache, text, use_cache, answer)
        counted == e.provider /\ use_cache
    IN  /\ counted => cached_calls[text] < MaxCalls
        /\ embedding_cache' = e.cache
        /\ ret' = [op |-> "get_embedding", text |-> text, use_cache |-> use_cache,
                   outcome |-> e.outcome, value |-> e.value, provider |-> e.provider,
                   answer |-> IF e.provider THEN answer.kind ELSE "none"]
        /\ warm' = IF use_cache /\ e.outcome = "ok"
                   THEN [warm EXCEPT ![text] = e.value]
                   ELSE warm
        /\ cached_calls' = IF counted
                           THEN [cached_calls EXCEPT ![text] = @ + 1]
                           ELSE cached_calls
        /\ cached_ok' = IF counted /\ e.outcome = "ok"
                        THEN [cached_ok EXCEPT ![text] = @ + 1]
                        ELSE cached_ok
        /\ UNCHANGED <<batchEmbedVars, storeVars, extVars, hs_ret, batchSearchVars>>

\* Concurrent get_embedding calls on one EmbeddingService.  The provider call
\* (lines 36-39) is taken as the point where a call can be overtaken by
\* another one; lines 32-33 and lines 40-46 each run without interruption.
\* A call running to its end, as on the event loop with the synchronous
\* client, is the interleaving in which embed_return follows embed_begin.
NoCall == [pc |-> "idle", text |-> "", use_cache |-> FALSE, value |-> <<>>,
           provider_calls |-> 0]

\* lines 31-36: answer from the cache, or issue the provider call
embed_begin(c, text, use_cache) ==
    /\ embed_calls[c].pc = "idle"
    /\ embed_calls' = [embed_calls EXCEPT ![c] =
          IF CacheHit(embedding_cache, text, use_cache)
          THEN [pc |-> "done", text |-> text, use_cache |-> use_cache,
                value |-> <<embedding_cache[text]>>, provider_calls |-> 0]
          ELSE [pc |-> "provider", text |-> text, use_cache |-> use_cache,
                value |-> <<>>, provider_calls |-> 1]]
    /\ UNCHANGED <<embedVars, em_ret, provided, batchEmbedVars, storeVars, hs_ret,
                   batchSearchVars, collVars, pointVars, searchVars, lateVars>>

\* lines 36-48: the provider answers the call of caller c
embed_return(c, answer) ==
    /\ embed_calls[c].pc = "provider"
    /\ LET call == embed_calls[c]
           r == AfterProvider(embedding_cache, call.text, call.use_cache, answer)
       IN  /\ embedding_cache' = r.cache
           /\ embed_calls' = [embed_calls EXCEPT ![c] =
                 [pc |-> IF r.outcome = "ok" THEN "done" ELSE "error",
                  text |-> call.text, use_cache |-> call.use_cache,
                  value |-> r.value, provider_calls |-> call.provider_calls]]
           /\ provided' = IF answer.kind = "ok"
                          THEN [provided EXCEPT ![call.text] = @ \cup {answer.vec}]
                          ELSE provided
    /\ UNCHANGED <<ret, warm, cached_calls, cached_ok, em_ret, batchEmbedVars,
                   storeVars, hs_ret, batchSearchVars, collVars, pointVars, searchVars, lateVars>>

\* lines 112-114
clear_cache ==
    /\ embedding_cache' = EmptyDict
    /\ ret' = [op |-> "clear_cache", text |-> "", use_cache |-> FALSE,
               outcome |-> "ok", value |-> <<>>, provider |-> FALSE,
               answer |-> "none"]
    /\ warm' = [t \in Texts |-> <<>>]
    /\ cached_calls' = [t \in Texts |-> 0]
    /\ cached_ok' = [t \in Texts |-> 0]
    /\ UNCHANGED <<batchEmbedVars, storeVars, extVars, hs_ret, batchSearchVars>>

(***************************************************************************)
(* EmbeddingService.get_embeddings.  The provider answers a chunk with one *)
(* vector per input, in input order, or fails.  The coroutine suspends     *)
(* only in asyncio.sleep between two chunks, so one action runs from the   *)
(* call (or from the end of a pause) to the next pause, return or raise.   *)
(***************************************************************************)
\* mutant: the chunk is one text too long
Chunk_OneTooMany(texts, i, batch_size) == Slice(texts, i, i + batch_size + 1)

\* line 65: batch = texts[i:i + batch_size]
Chunk(texts, i, batch_size) == Slice(texts, i, i + batch_size)

\* mutant: a failed chunk is skipped and the loop goes on
ChunkFailed_Skip(texts, i, batch_size, embeddings) ==
    IF i + batch_size < Len(texts)
    THEN [pc |-> "sleep", ret |-> <<>>]
    ELSE [pc |-> "done", ret |-> <<embeddings>>]

\* lines 79-80: except Exception: raise Exception(...)
ChunkFailed(texts, i, batch_size, embeddings) == [pc |-> "error", ret |-> <<>>]

\* What the provider can answer to a chunk: one vector per input, or a failure
ChunkAnswers(batch) ==
    {[ok |-> TRUE, vecs |-> v] : v \in [1..Len(batch) -> Vectors]}
    \cup {[ok |-> FALSE, vecs |-> <<>>]}

\* mutant: a pause is taken after every chunk, the last one too
MoreChunks_AfterEvery(texts, i, batch_size) == i < Len(texts)

\* line 76: `if i + batch_size < len(texts)`, a chunk is left after this one
MoreChunks(texts, i, batch_size) == i + batch_size < Len(texts)

\* lines 65-80: one iteration of the loop at offset i
EmbedChunk(texts, batch_size, i, embeddings, log, ok, vecs) ==
    LET batch == Chunk(texts, i, batch_size)
        call == [kind |-> "call", input |-> batch, output |-> vecs, ok |-> ok]
    IN  /\ eb_texts' = texts
        /\ eb_batch_size' = batch_size
        /\ IF ok
           THEN /\ all_embeddings' = embeddings \o vecs
                /\ IF MoreChunks(texts, i, batch_size)
                   THEN \* lines 76-77, then the next iteration
                        /\ eb_pc' = "sleep"
                        /\ eb_i' = i + batch_size
                        /\ eb_ret' = <<>>
                        /\ eb_log' = log \o <<call,
                               [kind |-> "sleep", input |-> <<>>,
                                output |-> <<>>, ok |-> TRUE]>>
                   ELSE \* line 82
                        /\ eb_pc' = "done"
                        /\ eb_i' = i
                        /\ eb_ret' = <<embeddings \o vecs>>
                        /\ eb_log' = Append(log, call)
           ELSE LET r == ChunkFailed(texts, i, batch_size, embeddings)
                IN  /\ all_embeddings' = embeddings
                    /\ eb_pc' = r.pc
                    /\ eb_i' = IF r.pc = "sleep" THEN i + batch_size ELSE i
                    /\ eb_ret' = r.ret
                    /\ eb_log' = Append(log, call)

\* lines 61-64 and the first iteration
EmbedFirst(texts, batch_size, ok, vecs) ==
    IF Len(texts) = 0
    THEN \* range(0, 0, batch_size) is empty: line 82
         /\ eb_pc' = "done"
         /\ eb_texts' = texts
         /\ eb_batch_size' = batch_size
         /\ eb_i' = 0
         /\ all_embeddings' = <<>>
         /\ eb_ret' = << <<>> >>
         /\ eb_log' = <<>>
    ELSE EmbedChunk(texts, batch_size, 0, <<>>, <<>>, ok, vecs)

\* A call keeps nothing from an earlier one (its state is its locals), so a
\* behaviour follows one call.
get_embeddings(texts, batch_size, ok, vecs) ==
    /\ eb_pc = "idle"
    /\ UNCHANGED <<embedVars, storeVars, extVars, hs_ret, batchSearchVars>>
    /\ EmbedFirst(texts, batch_size, ok, vecs)

\* asyncio.sleep returns: the next iteration of the loop
get_embeddings_resume(ok, vecs) ==
    /\ eb_pc = "sleep"
    /\ UNCHANGED <<embedVars, storeVars, extVars, hs_ret, batchSearchVars>>
    /\ EmbedChunk(eb_texts, eb_batch_size, eb_i, all_embeddings, eb_log, ok, vecs)

\* lines 96-104: one entry per (text, embedding) of zip(texts, embeddings), with
\* its position; the entry's 'model' is the configured model name
\* mutant: positions counted from one
WithMetadata_IndexFromOne(texts, embeddings) ==
    [k \in 1..Min(Len(texts), Len(embeddings)) |->
        [text |-> texts[k], embedding |-> embeddings[k], model |-> OPENAI_MODEL,
         dimension |-> Len(Components(embeddings[k])), index |-> k]]

WithMetadata(texts, embeddings) ==
    [k \in 1..Min(Len(texts), Len(embeddings)) |->
        [text |-> texts[k], embedding |-> embeddings[k], model |-> OPENAI_MODEL,
         dimension |-> Len(Components(embeddings[k])), index |-> k - 1]]

\* EmbeddingService.get_embeddings_with_metadata: get_embeddings(texts) with
\* the default batch_size, which does not pause for a list of at most
\* DefaultBatchSize texts, then lines 96-106
get_embeddings_with_metadata(texts, ok, vecs) ==
    /\ eb_pc = "idle"
    /\ Len(texts) <= DefaultBatchSize
    /\ EmbedFirst(texts, DefaultBatchSize, ok, vecs)
    /\ em_ret' = IF eb_pc' = "done" THEN <<WithMetadata(texts, eb_ret'[1])>> ELSE <<>>
    /\ UNCHANGED <<embedVars, storeVars, hs_ret, batchSearchVars, concVars, collVars,
                   pointVars, searchVars, lateVars>>

(***************************************************************************)
(* EmbeddingService.validate_embedding.  Its argument is any Python value: *)
(* whether it is a list, and its items, each a float, an int, a str or     *)
(* None.                                                                   *)
(***************************************************************************)
Numbers == {"float", "int"}

\* isinstance(x, (int, float)) for every item of the argument
AllNumbers(embedding) ==
    \A k \in 1..Len(embedding.items) : embedding.items[k] \in Numbers

\* lines 135-146: the value of all(...) at line 143 is computed and dropped,
\* and isinstance does not raise, so line 144 returns True
ValidateEmbedding(embedding) ==
    IF ~embedding.islist THEN FALSE
    ELSE IF Len(embedding.items) # VECTOR_SIZE THEN FALSE
    ELSE LET checked == AllNumbers(embedding) IN TRUE

validate_embedding(embedding) ==
    /\ val_ret' = [op |-> "validate_embedding", embedding |-> embedding,
                   result |-> ValidateEmbedding(embedding)]
    /\ UNCHANGED <<embedVars, batchEmbedVars, storeVars, hs_ret, batchSearchVars,
                   em_ret, concVars, collVars, pointVars, searchVars, agentVars,
                   combineVars, noteVars>>

(***************************************************************************)
(* _ensure_collection_exists of VectorService and of BaseAgent, run by     *)
(* several constructors (one VectorService per router module, one agent    *)
(* per persona, in every worker process) against one Qdrant.  The two      *)
(* store calls of an invocation are two steps.  Qdrant refuses to create a *)
(* collection that exists ("already exists").  The store is reachable.     *)
(***************************************************************************)
NoInvocation == [pc |-> "idle", collection_name |-> ""]

\* QdrantClient.create_collection
CreateCollection(names, collection_name) ==
    IF collection_name \in names
    THEN [ok |-> FALSE, names |-> names]
    ELSE [ok |-> TRUE, names |-> names \cup {collection_name}]

\* lines 21-24 of vector_service.py and lines 21-23 of base_agent.py: the
\* existence check (get_collections and `not in`, get_collection raising)
EnsureCheck(i, collection_name) ==
    /\ ensure_calls[i].pc = "idle"
    /\ ensure_calls' = [ensure_calls EXCEPT ![i] =
          [pc |-> IF collection_name \in collections THEN "done" ELSE "create",
           collection_name |-> collection_name]]
    /\ UNCHANGED <<collections, created, lateVars>>

\* lines 25-35 of vector_service.py (the except clause re-raises) and lines
\* 24-30 of base_agent.py (the create is outside any try)
EnsureCreate(i) ==
    /\ ensure_calls[i].pc = "create"
    /\ LET name == ensure_calls[i].collection_name
           r == CreateCollection(collections, name)
       IN  /\ collections' = r.names
           /\ created' = IF r.ok THEN [created EXCEPT ![name] = @ + 1] ELSE created
           /\ ensure_calls' = [ensure_calls EXCEPT ![i] =
                 [pc |-> IF r.ok THEN "done" ELSE "error", collection_name |-> name]]

\* VectorService._ensure_collection_exists
ensure_collection_check(i) ==
    /\ EnsureCheck(i, COLLECTION_NAME)
    /\ UNCHANGED <<embedVars, batchEmbedVars, storeVars, hs_ret, batchSearchVars,
                   em_ret, concVars, pointVars, searchVars, lateVars>>

ensure_collection_create(i) ==
    /\ ensure_calls[i].collection_name = COLLECTION_NAME
    /\ EnsureCreate(i)
    /\ UNCHANGED <<embedVars, batchEmbedVars, storeVars, hs_ret, batchSearchVars,
                   em_ret, concVars, pointVars, searchVars, lateVars>>

\* BaseAgent._ensure_collection_exists
agent_ensure_collection_check(i, collection_name) ==
    /\ EnsureCheck(i, collection_name)
    /\ UNCHANGED <<embedVars, batchEmbedVars, storeVars, hs_ret, batchSearchVars,
                   em_ret, concVars, pointVars, searchVars, lateVars>>

agent_ensure_collection_create(i) ==
    /\ ensure_calls[i].collection_name \in AgentCollections
    /\ EnsureCreate(i)
    /\ UNCHANGED <<embedVars, batchEmbedVars, storeVars, hs_ret, batchSearchVars,
                   em_ret, concVars, pointVars, searchVars, lateVars>>

(***************************************************************************)
(* Point operations of VectorService and BaseAgent.store_memory.  A point  *)
(* id is <<"uuid", n>> for the n-th uuid4 drawn, or <<name, length>> for   *)
(* the f"{name}_{len(embedding)}" of an agent.  `store_ok` tells whether   *)
(* the store call of the operation returns normally.  vs_ret holds the     *)
(* operation, its arguments, `known` (every id named exists), the sizes of *)
(* the collection before and after, and the outcome.                       *)
(***************************************************************************)
\* QdrantClient.upsert of one point: written, or overwritten under its id
Upsert(dict, point_id, vector, payload) ==
    DictSet(dict, point_id, [vector |-> vector, payload |-> payload])

RECURSIVE UpsertAll(_, _, _)
UpsertAll(dict, point_ids, items) ==
    IF point_ids = <<>> THEN dict
    ELSE UpsertAll(Upsert(dict, point_ids[1], items[1].vector, items[1].metadata),
                   Tail(point_ids), Tail(items))

\* QdrantClient.set_payload: the given keys are set on the points that exist
SetPayload(dict, point_id, metadata) ==
    IF point_id \in DOMAIN dict
    THEN [dict EXCEPT ![point_id].payload =
             [f \in (DOMAIN @) \cup (DOMAIN metadata) |->
                 IF f \in DOMAIN metadata THEN metadata[f] ELSE @[f]]]
    ELSE dict

\* QdrantClient.delete
Delete(dict, point_ids) == [i \in (DOMAIN dict) \ point_ids |-> dict[i]]

\* str(uuid.uuid4()): a value never drawn before
Uuid(n) == <<"uuid", n>>

Range(seq) == {seq[k] : k \in 1..Len(seq)}

\* mutant: a store failure is swallowed and an empty result returned
Raising_Swallowed(store_ok, value) == [outcome |-> "ok", value |-> value]

\* try: ... return value / except Exception as e: raise Exception(...)
Raising(store_ok, value) ==
    IF store_ok THEN [outcome |-> "ok", value |-> value]
    ELSE [outcome |-> "error", value |-> <<>>]

\* mutant: the store's exception is re-raised
BestEffort_Raised(store_ok) ==
    IF store_ok THEN [outcome |-> "ok", value |-> <<TRUE>>]
    ELSE [outcome |-> "error", value |-> <<>>]

\* try: ... return True / except Exception: return False
BestEffort(store_ok) == [outcome |-> "ok", value |-> <<store_ok>>]

StoreRecord(op, args, known, store_ok, before, after, r) ==
    [op |-> op, args |-> args, known |-> known, store_ok |-> store_ok,
     before |-> before, after |-> after, outcome |-> r.outcome, value |-> r.value]

PointsUnchanged == UNCHANGED <<embedVars, batchEmbedVars, storeVars, hs_ret,
                               batchSearchVars, em_ret, concVars, collVars,
                               searchVars, lateVars>>

\* VectorService.store_vector, lines 48-63
store_vector(vector, metadata, store_ok) ==
    /\ uuids < MaxUuids
    /\ uuids' = uuids + 1
    /\ LET point_id == Uuid(uuids + 1)
       IN  /\ points' = IF store_ok THEN Upsert(points, point_id, vector, metadata)
                        ELSE points
           /\ vs_ret' = StoreRecord("store_vector", <<vector, metadata>>, FALSE, store_ok,
                                    Cardinality(DOMAIN points),
                                    Cardinality(DOMAIN points'),
                                    Raising(store_ok, <<point_id>>))
    /\ UNCHANGED agent_points
    /\ PointsUnchanged

\* VectorService.store_vectors_batch, lines 75-95
store_vectors_batch(vectors_with_metadata, store_ok) ==
    /\ uuids + Len(vectors_with_metadata) <= MaxUuids
    /\ uuids' = uuids + Len(vectors_with_metadata)
    /\ LET point_ids == [k \in 1..Len(vectors_with_metadata) |-> Uuid(uuids + k)]
       IN  /\ points' = IF store_ok
                        THEN UpsertAll(points, point_ids, vectors_with_metadata)
                        ELSE points
           /\ vs_ret' = StoreRecord("store_vectors_batch", vectors_with_metadata, FALSE,
                                    store_ok, Cardinality(DOMAIN points),
                                    Cardinality(DOMAIN points'),
                                    Raising(store_ok, point_ids))
    /\ UNCHANGED agent_points
    /\ PointsUnchanged

\* VectorService.get_vectors_by_ids, lines 211-227: the points that exist
get_vectors_by_ids(point_ids, store_ok) ==
    /\ LET found == SelectSeq(point_ids, LAMBDA i : i \in DOMAIN points)
           results == [k \in 1..Len(found) |->
                          [id |-> found[k], vector |-> points[found[k]].vector,
                           payload |-> points[found[k]].payload]]
       IN  vs_ret' = StoreRecord("get_vectors_by_ids", point_ids,
                                 Range(point_ids) \subseteq DOMAIN points, store_ok,
                                 Cardinality(DOMAIN points), Cardinality(DOMAIN points),
                                 Raising(store_ok, results))
    /\ UNCHANGED <<points, agent_points, uuids, lateVars>>
    /\ PointsUnchanged

\* VectorService.update_vector_metadata, lines 240-248
update_vector_metadata(point_id, metadata, store_ok) ==
    /\ points' = IF store_ok THEN SetPayload(points, point_id, metadata) ELSE points
    /\ vs_ret' = StoreRecord("update_vector_metadata", <<point_id, metadata>>,
                             point_id \in DOMAIN points, store_ok,
                             Cardinality(DOMAIN points), Cardinality(DOMAIN points'),
                             BestEffort(store_ok))
    /\ UNCHANGED <<agent_points, uuids, lateVars>>
    /\ PointsUnchanged

\* VectorService.delete_vector, lines 260-267
delete_vector(point_id, store_ok) ==
    /\ points' = IF store_ok THEN Delete(points, {point_id}) ELSE points
    /\ vs_ret' = StoreRecord("delete_vector", <<point_id>>,
                             point_id \in DOMAIN points, store_ok,
                             Cardinality(DOMAIN points), Cardinality(DOMAIN points'),
                             BestEffort(store_ok))
    /\ UNCHANGED <<agent_points, uuids, lateVars>>
    /\ PointsUnchanged

\* VectorService.delete_vectors_batch, lines 279-286
delete_vectors_batch(point_ids, store_ok) ==
    /\ points' = IF store_ok THEN Delete(points, Range(point_ids)) ELSE points
    /\ vs_ret' = StoreRecord("delete_vectors_batch", point_ids,
                             Range(point_ids) \subseteq DOMAIN points, store_ok,
                             Cardinality(DOMAIN points), Cardinality(DOMAIN points'),
                             BestEffort(store_ok))
    /\ UNCHANGED <<agent_points, uuids, lateVars>>
    /\ PointsUnchanged

\* BaseAgent.store_memory, base_agent.py lines 61-81, with generate_embedding
\* (lines 53-59); nothing is caught, so a failure of the provider or of the
\* store raises
\* lines 63-64: the id is made of the agent's name and the length of the vector
MemoryId(name, vec) == <<name, Len(Components(vec))>>

\* mutant: every agent writes into the collection of Cara
StoreMemory_OneCollection(colls, name, text, metadata, answer, store_ok) ==
    IF answer.kind = "ok" /\ store_ok
    THEN [colls EXCEPT !["agent_cara"] =
             Upsert(@, MemoryId(name, answer.vec), answer.vec,
                    [text |-> text, agent |-> name, metadata |-> metadata])]
    ELSE colls

\* lines 62-81 on the collections of the agents
StoreMemory(colls, name, text, metadata, answer, store_ok) ==
    IF answer.kind = "ok" /\ store_ok
    THEN [colls EXCEPT ![CollectionName(name)] =
             Upsert(@, MemoryId(name, answer.vec), answer.vec,
                    [text |-> text, agent |-> name, metadata |-> metadata])]
    ELSE colls

\* history: the text of a store_memory that returned
Remember(texts, name, text, stored) ==
    IF stored THEN [texts EXCEPT ![CollectionName(name)] = @ \cup {text}] ELSE texts

store_memory(name, text, metadata, answer, store_ok) ==
    LET point_id == MemoryId(name, answer.vec)
        stored == answer.kind = "ok" /\ store_ok
        mine == agent_points[CollectionName(name)]
    IN  /\ agent_points' = StoreMemory(agent_points, name, text, metadata, answer, store_ok)
        /\ vs_ret' = StoreRecord("store_memory", <<text, metadata>>,
                                 point_id \in DOMAIN mine, stored,
                                 Cardinality(DOMAIN mine),
                                 Cardinality(DOMAIN agent_points'[CollectionName(name)]),
                                 Raising(stored, <<point_id>>))
        /\ remembered' = Remember(remembered, name, text, stored)
        /\ UNCHANGED <<points, uuids, validVars, conversations, note_rows, ag_ret,
                       combineVars, noteVars>>
        /\ UNCHANGED <<embedVars, batchEmbedVars, storeVars, hs_ret, batchSearchVars,
                       em_ret, concVars, collVars, searchVars>>

(***************************************************************************)
(* The vector store (QdrantClient.search): the points whose score reaches  *)
(* score_threshold, by descending score, at most limit of them.  Points of *)
(* equal score are returned by ascending id.                               *)
(***************************************************************************)
Payload(p) == [content |-> p]

RECURSIVE Ranked(_, _)
Ranked(score, S) ==
    IF S = {} THEN <<>>
    ELSE LET best == CHOOSE p \in S :
                         \A q \in S : \/ score[p] > score[q]
                                      \/ (score[p] = score[q] /\ p <= q)
         IN  <<best>> \o Ranked(score, S \ {best})

ClientSearch(score, limit, score_threshold) ==
    LET hits == Ranked(score, {p \in PointIds : score[p] >= score_threshold})
    IN  SubSeq(hits, 1, Min(limit, Len(hits)))

\* mutant: `if not score_threshold`, which also replaces a threshold of 0
Threshold_Falsy(score_threshold) ==
    IF score_threshold = <<>> \/ score_threshold[1] = 0
    THEN SIMILARITY_THRESHOLD
    ELSE score_threshold[1]

\* vector_service.py lines 111-112: the configured threshold when the caller
\* gives none (an optional value is a sequence of length 0 or 1)
Threshold(score_threshold) ==
    IF score_threshold = <<>> THEN SIMILARITY_THRESHOLD ELSE score_threshold[1]

\* vector_service.py lines 128-136: [{'id', 'score', 'payload'} for point in search_result]
SearchResults(score, hits) ==
    [k \in 1..Len(hits) |->
        [id |-> hits[k], score |-> score[hits[k]], payload |-> Payload(hits[k])]]

\* The cosine scores of the stored points against a query vector: sem_score
\* for the vector of the hybrid query; for another vector v the point with id v
\* is the one near it.
StoreScores(query_vector) ==
    IF query_vector = QueryVector THEN sem_score
    ELSE [p \in PointIds |-> IF p = query_vector THEN 90 ELSE 50]

\* VectorService.search_vectors, when client.search returns
search_vectors(query_vector, limit, score_threshold) ==
    SearchResults(StoreScores(query_vector),
                  ClientSearch(StoreScores(query_vector), limit,
                               Threshold(score_threshold)))

\* VectorService.search_by_text_similarity, when client.search returns
search_by_text_similarity(limit, score_threshold) ==
    SearchResults(lex_score, ClientSearch(lex_score, limit, Threshold(score_threshold)))

(***************************************************************************)
(* Filters.  The filter_conditions dict is the sequence of its items, in   *)
(* insertion order: [field, value], a value being a number (isdict FALSE)  *)
(* or a dict with the optional keys 'gte' and 'lte' (isdict TRUE).  None   *)
(* and the empty dict are both the empty sequence: line 116 tells them no  *)
(* further apart.  A Filter is the sequence of its `must` conditions.      *)
(***************************************************************************)
Opt(S) == {<<>>} \cup {<<x>> : x \in S}

FilterValues ==
    [isdict : {FALSE}, value : FieldValues, gte : {<<>>}, lte : {<<>>}]
    \cup [isdict : {TRUE}, value : {0}, gte : Opt(FieldValues), lte : Opt(FieldValues)]

FilterDicts ==
    {f \in SeqsUpTo([field : Fields, value : FilterValues], 2) :
        \A j, k \in 1..Len(f) : f[j].field = f[k].field => j = k}

\* lines 145-156: the condition appended for one item, if one is appended
Condition(field, value) ==
    IF value.isdict
    THEN IF value.gte # <<>> \/ value.lte # <<>>
         THEN <<[kind |-> "range", key |-> field, match |-> 0,
                 gte |-> value.gte, lte |-> value.lte]>>
         ELSE <<>>
    ELSE <<[kind |-> "match", key |-> field, match |-> value.value,
            gte |-> <<>>, lte |-> <<>>]>>

\* VectorService._build_filter, lines 140-158
RECURSIVE BuildFilter(_)
BuildFilter(conditions) ==
    IF conditions = <<>> THEN <<>>
    ELSE Condition(conditions[1].field, conditions[1].value)
         \o BuildFilter(Tail(conditions))

\* lines 115-117: search_filter, None unless filter_conditions is truthy
SearchFilter(filter_conditions) ==
    IF filter_conditions = <<>> THEN <<>> ELSE <<BuildFilter(filter_conditions)>>

\* the payload fields of the stored points
PointMeta(p) == IF p % 2 = 1 THEN [kind |-> 1] ELSE [kind |-> 2, year |-> 1]

\* Qdrant: a point meets a condition if it has the field and the value
\* matches, or lies within the bounds given
Meets(p, c) ==
    /\ c.key \in DOMAIN PointMeta(p)
    /\ LET v == PointMeta(p)[c.key]
       IN  IF c.kind = "match" THEN v = c.match
           ELSE /\ c.gte # <<>> => v >= c.gte[1]
                /\ c.lte # <<>> => v <= c.lte[1]

\* QdrantClient.search with a query_filter (None: no filter)
ClientSearchWith(score, limit, score_threshold, query_filter) ==
    LET hits == Ranked(score,
                   {p \in PointIds :
                       /\ score[p] >= score_threshold
                       /\ query_filter # <<>> =>
                             \A k \in 1..Len(query_filter[1]) :
                                 Meets(p, query_filter[1][k])})
    IN  SubSeq(hits, 1, Min(limit, Len(hits)))

SearchRecord(op, query, query_vector, limit, score_threshold, filter_conditions, sent, hits, provider, store_ok, r) ==
    [op |-> op, query |-> query, query_vector |-> query_vector, limit |-> limit,
     score_threshold |-> score_threshold, filter_conditions |-> filter_conditions,
     sent |-> sent, hits |-> hits, provider |-> provider, store_ok |-> store_ok,
     outcome |-> r.outcome, results |-> r.value]

\* VectorService.search_vectors, lines 111-138: what is sent to client.search,
\* what the store answers and what is returned
SearchVectors(op, query, provider, query_vector, limit, score_threshold, filter_conditions, store_ok) ==
    LET sent == [limit |-> limit, score_threshold |-> Threshold(score_threshold),
                 query_filter |-> SearchFilter(filter_conditions)]
        score == StoreScores(query_vector)
        hits == IF store_ok
                THEN ClientSearchWith(score, sent.limit, sent.score_threshold,
                                      sent.query_filter)
                ELSE <<>>
    IN  SearchRecord(op, query, <<query_vector>>, limit, score_threshold,
                     filter_conditions, <<sent>>, hits, provider, store_ok,
                     Raising(store_ok, SearchResults(score, hits)))

SearchUnchanged == UNCHANGED <<batchEmbedVars, storeVars, hs_ret, batchSearchVars,
                               em_ret, concVars, collVars, pointVars, lateVars>>

search_vectors_call(query_vector, limit, score_threshold, filter_conditions, store_ok) ==
    /\ sv_ret' = SearchVectors("search_vectors", "", "none", query_vector, limit,
                               score_threshold, filter_conditions, store_ok)
    /\ UNCHANGED embedVars
    /\ SearchUnchanged

\* SearchService.semantic_search, search_service.py lines 33-56: get_embedding
\* then search_vectors; a failure of either is re-raised
semantic_search(query, limit, score_threshold, filter_conditions, answer, store_ok) ==
    LET e == Embed(embedding_cache, query, TRUE, answer)
        provider == IF e.provider THEN answer.kind ELSE "none"
    IN  /\ embedding_cache' = e.cache
        /\ sv_ret' = IF e.outcome = "ok"
                     THEN SearchVectors("semantic_search", query, provider, e.value[1],
                                        limit, score_threshold, filter_conditions,
                                        store_ok)
                     ELSE SearchRecord("semantic_search", query, <<>>, limit,
                                       score_threshold, filter_conditions, <<>>, <<>>,
                                       provider, TRUE, Raising(FALSE, <<>>))
        /\ UNCHANGED <<ret, warm, cached_calls, cached_ok, lateVars>>
        /\ SearchUnchanged

(***************************************************************************)
(* SearchService._combine_search_results                                   *)
(***************************************************************************)
Ids(results) == {results[k].id : k \in 1..Len(results)}

\* lines 119-120: {result['id']: result for result in results}; the last
\* result with an id wins
Lookup(results) ==
    [i \in Ids(results) |->
        results[CHOOSE k \in 1..Len(results) :
                    /\ results[k].id = i
                    /\ \A j \in 1..Len(results) : results[j].id = i => j <= k]]

\* mutant: only the ids of the semantic results are fused
AllIds_SemanticOnly(semantic_lookup, text_lookup) == DOMAIN semantic_lookup

\* line 123: set(semantic_lookup.keys()) | set(text_lookup.keys())
AllIds(semantic_lookup, text_lookup) ==
    (DOMAIN semantic_lookup) \cup (DOMAIN text_lookup)

\* mutant: a missing score defaults to the full score 1.0
ScoreOf_DefaultOne(lookup, point_id) ==
    IF point_id \in DOMAIN lookup THEN lookup[point_id].score ELSE 100

\* lines 127-128: lookup.get(point_id, {}).get('score', 0)
ScoreOf(lookup, point_id) ==
    IF point_id \in DOMAIN lookup THEN lookup[point_id].score ELSE 0

\* mutant: the two weights are swapped
CombinedScore_Swapped(semantic_score, text_score, semantic_weight, text_weight) ==
    (semantic_score * text_weight) + (text_score * semantic_weight)

\* line 131
CombinedScore(semantic_score, text_score, semantic_weight, text_weight) ==
    (semantic_score * semantic_weight) + (text_score * text_weight)

\* mutant: the payload of the text result comes first
PayloadOf_TextFirst(semantic_lookup, text_lookup, point_id) ==
    IF point_id \in DOMAIN text_lookup THEN text_lookup[point_id].payload
    ELSE IF point_id \in DOMAIN semantic_lookup THEN semantic_lookup[point_id].payload
    ELSE EmptyDict

\* lines 134-135
PayloadOf(semantic_lookup, text_lookup, point_id) ==
    IF point_id \in DOMAIN semantic_lookup THEN semantic_lookup[point_id].payload
    ELSE IF point_id \in DOMAIN text_lookup THEN text_lookup[point_id].payload
    ELSE EmptyDict

\* lines 127-143: the fused entry of one id
Fuse(semantic_lookup, text_lookup, semantic_weight, text_weight, point_id) ==
    LET semantic_score == ScoreOf(semantic_lookup, point_id)
        text_score == ScoreOf(text_lookup, point_id)
    IN  [id |-> point_id,
         score |-> CombinedScore(semantic_score, text_score,
                                 semantic_weight, text_weight),
         semantic_score |-> semantic_score,
         text_score |-> text_score,
         payload |-> PayloadOf(semantic_lookup, text_lookup, point_id)]

\* line 146: list.sort(key=score, reverse=True) is stable: entries of equal
\* score keep their order.  The list is sorted through its ids, `fused` giving
\* the entry of an id.
RECURSIVE InsertDesc(_, _, _)
InsertDesc(fused, x, sorted) ==
    IF sorted = <<>> THEN <<x>>
    ELSE IF fused[sorted[1]].score >= fused[x].score
         THEN <<sorted[1]>> \o InsertDesc(fused, x, Tail(sorted))
         ELSE <<x>> \o sorted

RECURSIVE SortDesc(_, _)
SortDesc(fused, order) ==
    IF order = <<>> THEN <<>>
    ELSE InsertDesc(fused, order[Len(order)],
                    SortDesc(fused, SubSeq(order, 1, Len(order) - 1)))

\* the orders in which a Python set can be iterated
RECURSIVE Orders(_)
Orders(S) ==
    IF S = {} THEN {<<>>}
    ELSE UNION {{<<x>> \o o : o \in Orders(S \ {x})} : x \in S}

\* lines 112-148: every list the call can return, one for each order in which
\* the set all_ids is iterated
combine_search_results(semantic_results, text_results, semantic_weight, text_weight) ==
    LET semantic_lookup == Lookup(semantic_results)
        text_lookup == Lookup(text_results)
        all_ids == AllIds(semantic_lookup, text_lookup)
        fused == [point_id \in all_ids |->
                     Fuse(semantic_lookup, text_lookup,
                          semantic_weight, text_weight, point_id)]
        sorted == {SortDesc(fused, order) : order \in Orders(all_ids)}
    IN  {[k \in 1..Len(ids) |-> fused[ids[k]]] : ids \in sorted}

(***************************************************************************)
(* SearchService.hybrid_search.  None of the coroutines it awaits suspends *)
(* (the OpenAI and Qdrant clients are synchronous), so a call is one step. *)
(* `answer` is the provider's answer if it is asked; `fail` names the      *)
(* store call that raises, if any.                                         *)
(***************************************************************************)
\* mutant: the searches are asked for limit candidates only
OverFetch_None(limit) == limit

\* lines 77 and 81: limit * 2
OverFetch(limit) == limit * 2

\* mutant: the fused list is returned whole
TopResults_All(combined_results, limit) == combined_results

\* line 93: combined_results[:limit], for limit >= 0
TopResults(combined_results, limit) ==
    SubSeq(combined_results, 1, Min(limit, Len(combined_results)))

Failed(cache, calls) ==
    [cache |-> cache, outcome |-> "error", results |-> <<>>, total_found |-> 0,
     calls |-> calls, semantic |-> <<>>, text |-> <<>>, combined |-> <<>>]

HybridOutcomes(cache, query, limit, semantic_weight, text_weight, answer, fail) ==
    LET e == Embed(cache, query, TRUE, answer)
        c1 == IF e.provider THEN <<[svc |-> "embed", limit |-> 0]>> ELSE <<>>
        c2 == Append(c1, [svc |-> "search", limit |-> OverFetch(limit)])
        c3 == Append(c2, [svc |-> "text_search", limit |-> OverFetch(limit)])
        semantic_results == search_vectors(e.value[1], OverFetch(limit), <<>>)
        text_results == search_by_text_similarity(OverFetch(limit), <<>>)
    IN  IF e.outcome = "error" THEN {Failed(e.cache, c1)}
        ELSE IF fail = "search" THEN {Failed(e.cache, c2)}
        ELSE IF fail = "text_search" THEN {Failed(e.cache, c3)}
        ELSE {[cache |-> e.cache, outcome |-> "ok",
               results |-> TopResults(combined_results, limit),
               total_found |-> Len(TopResults(combined_results, limit)),
               calls |-> c3, semantic |-> semantic_results, text |-> text_results,
               combined |-> combined_results] :
                 combined_results \in combine_search_results(
                     semantic_results, text_results, semantic_weight, text_weight)}

Abs(x) == IF x < 0 THEN -x ELSE x

\* mutant: the check is skipped
WeightsInvalid_Never(semantic_weight, text_weight) == FALSE

\* routers/search.py line 85: abs(semantic_weight + text_weight - 1.0) > 0.01
WeightsInvalid(semantic_weight, text_weight) ==
    Abs(semantic_weight + text_weight - 100) > 1

\* What a hybrid search leaves in hs_ret: the arguments, the external calls
\* made, the lists fused, the service's return value (results, total_found)
\* and, for the route, the response (response, response_total); `answer` is
\* the provider's answer if the provider was called and `fail` the store
\* call that raised.
HybridRecord(entry, query, limit, semantic_weight, text_weight, outcome, r, response, answer, fail) ==
    [entry |-> entry, query |-> query, limit |-> limit,
     answer |-> IF \E k \in 1..Len(r.calls) : r.calls[k].svc = "embed"
                THEN answer.kind ELSE "none",
     fail |-> fail,
     semantic_weight |-> semantic_weight, text_weight |-> text_weight,
     outcome |-> outcome, calls |-> r.calls,
     semantic |-> r.semantic, text |-> r.text, combined |-> r.combined,
     results |-> r.results, total_found |-> r.total_found,
     response |-> response, response_total |-> Len(response)]

\* SearchService.hybrid_search called directly
hybrid_search(query, limit, semantic_weight, text_weight, answer, fail) ==
    \E r \in HybridOutcomes(embedding_cache, query, limit,
                            semantic_weight, text_weight, answer, fail) :
        /\ embedding_cache' = r.cache
        /\ hs_ret' = HybridRecord("service", query, limit, semantic_weight,
                                  text_weight, r.outcome, r, <<>>, answer, fail)
        /\ UNCHANGED <<ret, warm, cached_calls, cached_ok, batchEmbedVars, storeVars, extVars,
                         batchSearchVars>>

\* routers/search.py lines 99-109: the results that have a Note row
WithNotes(results) == SelectSeq(results, LAMBDA r : r.id \in notes)

\* POST /search/hybrid
route_hybrid_search(query, limit, semantic_weight, text_weight, answer, fail) ==
    IF WeightsInvalid(semantic_weight, text_weight)
    THEN \* lines 85-89 and 120-121: HTTP 400
         /\ hs_ret' = HybridRecord("route", query, limit, semantic_weight,
                                   text_weight, "http400",
                                   Failed(embedding_cache, <<>>), <<>>, answer, "none")
         /\ UNCHANGED <<embedVars, batchEmbedVars, storeVars, extVars, batchSearchVars>>
    ELSE \E r \in HybridOutcomes(embedding_cache, query, limit,
                                 semantic_weight, text_weight, answer, fail) :
             /\ embedding_cache' = r.cache
             /\ hs_ret' = HybridRecord("route", query, limit, semantic_weight,
                                       text_weight,
                                       \* lines 122-126: HTTP 500
                                       IF r.outcome = "ok" THEN "ok" ELSE "http500",
                                       r, WithNotes(r.results), answer, fail)
             /\ UNCHANGED <<ret, warm, cached_calls, cached_ok, batchEmbedVars, storeVars, extVars,
                         batchSearchVars>>

(***************************************************************************)
(* SearchService.batch_search.  It suspends once, in asyncio.gather; each  *)
(* search task is a coroutine that does not suspend, so a task is one      *)
(* step, and the tasks may complete in any order.                          *)
(***************************************************************************)
\* lines 166-169: one search_vectors coroutine per (query, embedding) of
\* zip(queries, embeddings)
NewTasks(queries, embeddings, limit) ==
    [i \in 1..Min(Len(queries), Len(embeddings)) |->
        [query |-> queries[i], vector |-> embeddings[i], limit |-> limit,
         state |-> "pending", results |-> <<>>, done_at |-> 0]]

Completed(tasks) == {i \in 1..Len(tasks) : tasks[i].state # "pending"}

\* mutant: the results come in the order in which the tasks completed
Gathered_ByCompletion(tasks) ==
    [k \in 1..Len(tasks) |->
        tasks[CHOOSE i \in 1..Len(tasks) : tasks[i].done_at = k].results]

\* line 171: asyncio.gather returns the results in the order of the awaitables
Gathered(tasks) == [i \in 1..Len(tasks) |-> tasks[i].results]

\* lines 174-181
FormatResults(queries, search_results) ==
    [k \in 1..Min(Len(queries), Len(search_results)) |->
        [query |-> queries[k], results |-> search_results[k],
         total_found |-> Len(search_results[k]), query_index |-> k - 1]]

\* mutant: gather collects the exception of a task with the results
TaskFailed_Collected(pc) == pc

\* lines 171 and 185-186: gather raises the first exception of a task into
\* batch_search, which re-raises it
TaskFailed(pc) == "error"

\* lines 161-171: up to the await of asyncio.gather.  A call keeps nothing from
\* an earlier one, so a behaviour follows one call.
batch_search(queries, limit, ok, vecs) ==
    /\ bs_pc = "idle"
    /\ EmbedFirst(queries, DefaultBatchSize, ok, vecs)
    /\ bs_queries' = queries
    /\ IF eb_pc' = "error"
       THEN \* lines 185-186
            /\ bs_pc' = "error"
            /\ search_tasks' = <<>>
            /\ bs_ret' = <<>>
       ELSE /\ search_tasks' = NewTasks(queries, eb_ret'[1], limit)
            /\ bs_pc' = "gather"
            /\ bs_ret' = <<>>
    /\ UNCHANGED <<embedVars, storeVars, extVars, hs_ret>>

\* one task of search_tasks runs VectorService.search_vectors(embedding, limit)
search_task(i, ok) ==
    /\ bs_pc \in {"gather", "error"}
    /\ i \in 1..Len(search_tasks)
    /\ search_tasks[i].state = "pending"
    /\ LET t == search_tasks[i]
       IN  search_tasks' =
              [search_tasks EXCEPT ![i] =
                  [query |-> t.query, vector |-> t.vector, limit |-> t.limit,
                   state |-> IF ok THEN "ok" ELSE "failed",
                   results |-> IF ok
                               THEN search_vectors(t.vector, t.limit, <<>>)
                               ELSE <<>>,
                   done_at |-> Cardinality(Completed(search_tasks)) + 1]]
    /\ bs_pc' = IF ok THEN bs_pc ELSE TaskFailed(bs_pc)
    /\ UNCHANGED <<bs_queries, bs_ret, embedVars, batchEmbedVars, storeVars, extVars, hs_ret>>

\* lines 171-183: gather has all results; batch_search formats and returns them
batch_search_return ==
    /\ bs_pc = "gather"
    /\ Completed(search_tasks) = 1..Len(search_tasks)
    /\ bs_ret' = <<FormatResults(bs_queries, Gathered(search_tasks))>>
    /\ bs_pc' = "done"
    /\ UNCHANGED <<bs_queries, search_tasks, embedVars, batchEmbedVars, storeVars, extVars,
                   hs_ret>>

InitRet == [op |-> "init", text |-> "", use_cache |-> FALSE,
            outcome |-> "ok", value |-> <<>>, provider |-> FALSE, answer |-> "none"]

\* SearchService._combine_search_results called on two result lists: it
\* returns one of the lists combine_search_results gives
combine(semantic_results, text_results, semantic_weight, text_weight) ==
    /\ \E combined \in combine_search_results(semantic_results, text_results,
                                               semantic_weight, text_weight) :
          cb_ret' = [op |-> "combine", semantic_results |-> semantic_results,
                     text_results |-> text_results, combined |-> combined]
    /\ UNCHANGED <<embedVars, batchEmbedVars, storeVars, hs_ret, batchSearchVars,
                   em_ret, concVars, collVars, pointVars, searchVars, validVars,
                   agentVars, noteVars>>

(***************************************************************************)
(* The agents (base_agent.py) and their routes (routers/agents.py).  The   *)
(* methods of an agent are synchronous: a route runs from its first line   *)
(* to its return without another request in between.  A text is a tuple of *)
(* strings, its pieces in order.  `answer` is the provider's answer to an  *)
(* embedding call, `hits` the points the store's search returns, `reply`   *)
(* the text of the chat completion if it returned one; a call that raises  *)
(* is not caught by the agent.  ag_ret holds the external calls of the     *)
(* operation in the order they were made.                                  *)
(***************************************************************************)
\* routers/agents.py lines 14-18: the agents of the routes, by route name
Agents == [cara |-> "Cara", penny |-> "Penny"]

\* agents.py lines 46-47: f"User: {request.message}\nAgent: {response}"
PairText(message, response) == <<"User: ", message, "\nAgent: ", response>>

\* dict.get(key): the value, or None
Get(dict, key) == IF key \in DOMAIN dict THEN <<dict[key]>> ELSE <<>>

AgentCall(svc, collection, limit, threshold, input, memories, context) ==
    [svc |-> svc, collection |-> collection, limit |-> limit, threshold |-> threshold,
     input |-> input, memories |-> memories, context |-> context]

EmbeddingCall(text) == AgentCall("embed", "", 0, 0, text, <<>>, <<>>)

\* base_agent.py lines 87-92
SearchCall(name, query, limit) ==
    AgentCall("search", CollectionName(name), limit, SIMILARITY_THRESHOLD, query, <<>>, <<>>)

\* base_agent.py lines 78-81
UpsertCall(name, text) == AgentCall("upsert", CollectionName(name), 0, 0, text, <<>>, <<>>)

\* base_agent.py lines 119-130: persona, the input with the memory texts and
\* the context if there is one (`if memories`, `if context`)
ChatCall(name, user_input, memories, context) ==
    AgentCall("chat", name, 0, 0, user_input,
              [k \in 1..Len(memories) |-> memories[k].text], context)

DbCall(svc, table) == AgentCall(svc, table, 0, 0, <<>>, <<>>, <<>>)

\* What the store's search can return from a collection: distinct points of
\* it, at most limit
Hits(coll, limit) ==
    {h \in SeqsUpTo(DOMAIN coll, Min(limit, Cardinality(DOMAIN coll))) :
        \A i, j \in 1..Len(h) : i # j => h[i] # h[j]}

\* BaseAgent.search_memory, lines 83-101, with generate_embedding (53-59)
SearchMemory(colls, name, query, limit, answer, hits, store_ok) ==
    LET coll == colls[SearchCall(name, query, limit).collection]
    IN  IF answer.kind # "ok"
        THEN [ok |-> FALSE, calls |-> <<EmbeddingCall(query)>>, memories |-> <<>>]
        ELSE IF ~store_ok
        THEN [ok |-> FALSE, memories |-> <<>>,
              calls |-> <<EmbeddingCall(query), SearchCall(name, query, limit)>>]
        ELSE [ok |-> TRUE,
              calls |-> <<EmbeddingCall(query), SearchCall(name, query, limit)>>,
              memories |-> [k \in 1..Len(hits) |->
                               [text |-> coll[hits[k]].payload.text,
                                metadata |-> coll[hits[k]].payload.metadata]]]

\* mutant: the memory search asks for five memories
GenerateResponse_FiveMemories(colls, name, user_input, context, answer, hits, store_ok, reply) ==
    LET sm == SearchMemory(colls, name, user_input, 5, answer, hits, store_ok)
        chat == ChatCall(name, user_input, sm.memories, context)
    IN  IF ~sm.ok
        THEN [ok |-> FALSE, calls |-> sm.calls, memories |-> <<>>, text |-> <<>>]
        ELSE [ok |-> reply # <<>>, calls |-> Append(sm.calls, chat),
              memories |-> sm.memories, text |-> reply]

\* BaseAgent.generate_response, lines 103-132: search_memory(limit=3), then
\* the chat completion; its text is returned
GenerateResponse(colls, name, user_input, context, answer, hits, store_ok, reply) ==
    LET sm == SearchMemory(colls, name, user_input, 3, answer, hits, store_ok)
        chat == ChatCall(name, user_input, sm.memories, context)
    IN  IF ~sm.ok
        THEN [ok |-> FALSE, calls |-> sm.calls, memories |-> <<>>, text |-> <<>>]
        ELSE [ok |-> reply # <<>>, calls |-> Append(sm.calls, chat),
              memories |-> sm.memories, text |-> reply]

\* the external calls of store_memory, lines 61-81
StoreMemoryCalls(name, text, answer) ==
    IF answer.kind = "ok" THEN <<EmbeddingCall(text), UpsertCall(name, text)>>
    ELSE <<EmbeddingCall(text)>>

AgentRecord(op, agent, input, calls, searched, found, outcome, value) ==
    [op |-> op, agent |-> agent, input |-> input, calls |-> calls,
     searched |-> searched, found |-> found, outcome |-> outcome, value |-> value]

AgentUnchanged == UNCHANGED <<embedVars, batchEmbedVars, storeVars, hs_ret,
                              batchSearchVars, em_ret, concVars, collVars,
                              searchVars, validVars, points, uuids, vs_ret,
                              combineVars, noteVars>>

generate_response(name, user_input, context, answer, hits, store_ok, reply) ==
    LET g == GenerateResponse(agent_points, name, user_input, context, answer, hits,
                              store_ok, reply)
    IN  /\ ag_ret' = AgentRecord("generate_response", name, user_input, g.calls,
                                 answer.kind = "ok" /\ store_ok, g.memories,
                                 IF g.ok THEN "ok" ELSE "error", g.text)
        /\ UNCHANGED <<agent_points, remembered, conversations, note_rows>>
        /\ AgentUnchanged

search_memory(name, query, limit, answer, hits, store_ok) ==
    LET sm == SearchMemory(agent_points, name, query, limit, answer, hits, store_ok)
    IN  /\ ag_ret' = AgentRecord("search_memory", name, query, sm.calls, sm.ok,
                                 sm.memories, IF sm.ok THEN "ok" ELSE "error",
                                 sm.memories)
        /\ UNCHANGED <<agent_points, remembered, conversations, note_rows>>
        /\ AgentUnchanged

\* routers/agents.py lines 20-59
chat_with_agent(agent_name, message, context, answer, hits, store_ok, reply, answer2, store_ok2) ==
    IF agent_name \notin DOMAIN Agents
    THEN \* lines 27-28
         /\ ag_ret' = AgentRecord("chat_with_agent", agent_name, message, <<>>,
                                  FALSE, <<>>, "http404", <<>>)
         /\ UNCHANGED <<agent_points, remembered, conversations, note_rows>>
         /\ AgentUnchanged
    ELSE LET name == Agents[agent_name]
             g == GenerateResponse(agent_points, name, message, context, answer, hits,
                                   store_ok, reply)
         IN  IF ~g.ok
             THEN \* line 33 raises
                  /\ ag_ret' = AgentRecord("chat_with_agent", name, message, g.calls,
                                           FALSE, g.memories, "http500", <<>>)
                  /\ UNCHANGED <<agent_points, remembered, conversations, note_rows>>
                  /\ AgentUnchanged
             ELSE LET id == Len(conversations) + 1
                      text == PairText(message, g.text[1])
                      stored == answer2.kind = "ok" /\ store_ok2
                  IN  \* lines 36-43: the row is committed; lines 46-49;
                      \* lines 52-53 when store_memory returned
                      /\ conversations' = Append(conversations,
                            [id |-> id, agent_name |-> agent_name,
                             embedding_id |-> IF stored
                                              THEN <<MemoryId(name, answer2.vec)>>
                                              ELSE <<>>])
                      /\ agent_points' = StoreMemory(agent_points, name, text,
                                            [conversation_id |-> id], answer2, store_ok2)
                      /\ remembered' = Remember(remembered, name, text, stored)
                      /\ ag_ret' = AgentRecord("chat_with_agent", name, message,
                            g.calls \o <<DbCall("commit", "conversations")>>
                                \o StoreMemoryCalls(name, text, answer2)
                                \o (IF stored THEN <<DbCall("commit", "conversations")>>
                                    ELSE <<>>),
                            TRUE, g.memories, IF stored THEN "ok" ELSE "http500",
                            IF stored THEN g.text ELSE <<>>)
                      /\ UNCHANGED note_rows
                      /\ AgentUnchanged

\* routers/agents.py lines 61-98 (the route named store_note)
agent_store_note(agent_name, content, answer, store_ok) ==
    IF agent_name \notin DOMAIN Agents
    THEN /\ ag_ret' = AgentRecord("store_note", agent_name, content, <<>>,
                                  FALSE, <<>>, "http404", <<>>)
         /\ UNCHANGED <<agent_points, remembered, conversations, note_rows>>
         /\ AgentUnchanged
    ELSE LET name == Agents[agent_name]
             id == Len(note_rows) + 1
             stored == answer.kind = "ok" /\ store_ok
         IN  /\ note_rows' = Append(note_rows,
                   [id |-> id, agent_name |-> agent_name,
                    embedding_id |-> IF stored THEN <<MemoryId(name, answer.vec)>>
                                     ELSE <<>>])
             /\ agent_points' = StoreMemory(agent_points, name, content,
                                   [note_id |-> id, metadata |-> 0], answer, store_ok)
             /\ remembered' = Remember(remembered, name, content, stored)
             /\ ag_ret' = AgentRecord("store_note", name, content,
                   <<DbCall("commit", "notes")>> \o StoreMemoryCalls(name, content, answer)
                       \o (IF stored THEN <<DbCall("commit", "notes")>> ELSE <<>>),
                   FALSE, <<>>, IF stored THEN "ok" ELSE "http500",
                   IF stored THEN <<id>> ELSE <<>>)
             /\ UNCHANGED conversations
             /\ AgentUnchanged

\* db.query(Row).filter(Row.embedding_id == key).first(), agents.py lines
\* 120-126.  embedding_id is a String column holding a point id or NULL and
\* key is None or an int: `== None` is rendered IS NULL; comparing the
\* varchar with an int is an error on PostgreSQL ("strict") and no match
\* elsewhere, the text of a point id (name, '_', length) being no number.
FirstRow(rows, key, strict) ==
    IF key = <<>>
    THEN [ok |-> TRUE, found |-> \E k \in 1..Len(rows) : rows[k].embedding_id = <<>>]
    ELSE [ok |-> ~strict, found |-> FALSE]

\* lines 128-149 for one memory: the source tag, or "raise" (line 148 reads
\* created_at of None when neither row was found)
Source(memory, strict) ==
    LET conversation == FirstRow(conversations, Get(memory.metadata, "conversation_id"), strict)
        note == FirstRow(note_rows, Get(memory.metadata, "note_id"), strict)
    IN  IF ~conversation.ok \/ ~note.ok THEN "raise"
        ELSE IF conversation.found THEN "conversation"
        ELSE IF note.found THEN "note"
        ELSE "raise"

\* routers/agents.py lines 100-155
search_agent_memory(agent_name, q, limit, answer, hits, store_ok, strict) ==
    /\ UNCHANGED <<agent_points, remembered, conversations, note_rows>>
    /\ AgentUnchanged
    /\ IF agent_name \notin DOMAIN Agents
       THEN ag_ret' = AgentRecord("search_agent_memory", agent_name, q, <<>>,
                                  FALSE, <<>>, "http404", <<>>)
       ELSE LET name == Agents[agent_name]
                sm == SearchMemory(agent_points, name, q, limit, answer, hits, store_ok)
                results == [k \in 1..Len(sm.memories) |->
                               [content |-> sm.memories[k].text,
                                source |-> Source(sm.memories[k], strict)]]
                raised == \/ ~sm.ok
                          \/ \E k \in 1..Len(results) : results[k].source = "raise"
            IN  ag_ret' = AgentRecord("search_agent_memory", name, q, sm.calls,
                                      sm.ok, sm.memories,
                                      IF raised THEN "http500" ELSE "ok",
                                      IF raised THEN <<>> ELSE results)

(***************************************************************************)
(* The routes of routers/notes.py on one EmbeddingService, one             *)
(* VectorService and the Note table.  `db_ok` tells whether creating or    *)
(* deleting the row and committing return normally.  nt_ret holds the      *)
(* calls of the request in the order they were made, each with the point   *)
(* id it returned or was given.                                            *)
(***************************************************************************)
NoteRecord(op, input, calls, outcome, value) ==
    [op |-> op, input |-> input, calls |-> calls, outcome |-> outcome, value |-> value]

NoteCall(svc, ok, id) == [svc |-> svc, ok |-> ok, id |-> id]

NotesUnchanged == UNCHANGED <<ret, warm, cached_calls, cached_ok, batchEmbedVars,
                              storeVars, hs_ret, batchSearchVars, em_ret, concVars,
                              collVars, agent_points, vs_ret, searchVars, validVars,
                              agentVars, combineVars>>

\* routers/notes.py lines 18-62
create_note(content, title, answer, store_ok, db_ok) ==
    LET e == Embed(embedding_cache, content, TRUE, answer)
        point_id == Uuid(uuids + 1)
        metadata == [content |-> content, title |-> title,
                     embedding_model |-> OPENAI_MODEL]
        stored == Raising(store_ok, <<point_id>>)
        embedded == NoteCall("get_embedding", e.outcome = "ok", <<>>)
        upserted == NoteCall("store_vector", stored.outcome = "ok", stored.value)
        committed == NoteCall("commit", db_ok, stored.value)
        id == note_ids + 1
    IN  /\ embedding_cache' = e.cache
        /\ NotesUnchanged
        /\ IF e.outcome # "ok"
           THEN \* line 32 raises: lines 57-62
                /\ nt_ret' = NoteRecord("create_note", <<content>>, <<embedded>>,
                                        "http500", <<>>)
                /\ UNCHANGED <<points, uuids, db_notes, note_ids>>
           ELSE /\ uuids < MaxUuids
                /\ uuids' = uuids + 1
                /\ points' = IF store_ok
                             THEN Upsert(points, point_id, e.value[1], metadata)
                             ELSE points
                /\ IF stored.outcome # "ok"
                   THEN \* line 41 raises
                        /\ nt_ret' = NoteRecord("create_note", <<content>>,
                                                <<embedded, upserted>>, "http500", <<>>)
                        /\ UNCHANGED <<db_notes, note_ids>>
                   ELSE IF ~db_ok
                   THEN \* lines 44-53 raise: the row is rolled back
                        /\ nt_ret' = NoteRecord("create_note", <<content>>,
                                                <<embedded, upserted, committed>>,
                                                "http500", <<>>)
                        /\ UNCHANGED <<db_notes, note_ids>>
                   ELSE /\ db_notes' = DictSet(db_notes, id,
                               [id |-> id, content |-> content, title |-> title,
                                vector_id |-> stored.value[1],
                                embedding_model |-> OPENAI_MODEL])
                        /\ note_ids' = id
                        /\ nt_ret' = NoteRecord("create_note", <<content>>,
                                                <<embedded, upserted, committed>>,
                                                "ok", <<id>>)

\* routers/notes.py lines 100-129: the boolean delete_vector returns is not
\* looked at (line 118)
delete_note(note_id, store_ok, db_ok) ==
    /\ UNCHANGED <<embedding_cache, uuids, note_ids>>
    /\ NotesUnchanged
    /\ IF note_id \notin DOMAIN db_notes
       THEN \* lines 109-113
            /\ nt_ret' = NoteRecord("delete_note", <<note_id>>, <<>>, "http404", <<>>)
            /\ UNCHANGED <<points, db_notes>>
       ELSE LET vector_id == db_notes[note_id].vector_id
                deleted == BestEffort(store_ok)
                calls == <<NoteCall("delete_vector", deleted.value[1], <<vector_id>>),
                           NoteCall("commit", db_ok, <<vector_id>>)>>
            IN  /\ points' = IF store_ok THEN Delete(points, {vector_id}) ELSE points
                /\ IF deleted.outcome # "ok"
                   THEN /\ nt_ret' = NoteRecord("delete_note", <<note_id>>,
                                                <<calls[1]>>, "http500", <<vector_id>>)
                        /\ UNCHANGED db_notes
                   ELSE IF ~db_ok
                   THEN \* lines 121-122 raise: lines 124-129
                        /\ nt_ret' = NoteRecord("delete_note", <<note_id>>, calls,
                                                "http500", <<vector_id>>)
                        /\ UNCHANGED db_notes
                   ELSE /\ db_notes' = [i \in (DOMAIN db_notes) \ {note_id} |-> db_notes[i]]
                        /\ nt_ret' = NoteRecord("delete_note", <<note_id>>, calls,
                                                "ok", <<vector_id>>)


InitLate ==
    /\ cb_ret = [op |-> "init", semantic_results |-> <<>>, text_results |-> <<>>,
                 combined |-> <<>>]
    /\ db_notes = EmptyDict
    /\ note_ids = 0
    /\ nt_ret = NoteRecord("init", <<>>, <<>>, "ok", <<>>)
    /\ remembered = [c \in AgentCollections |-> {}]
    /\ conversations = <<>>
    /\ note_rows = <<>>
    /\ ag_ret = AgentRecord("init", "", <<>>, <<>>, FALSE, <<>>, "ok", <<>>)
    /\ val_ret = [op |-> "init", embedding |-> [islist |-> TRUE, items |-> <<>>],
                  result |-> FALSE]

InitExt ==
    /\ InitLate
    /\ em_ret = <<>>
    /\ embed_calls = [c \in Callers |-> NoCall]
    /\ provided = [t \in Texts |-> {}]
    /\ collections = {}
    /\ created = [n \in {COLLECTION_NAME} \cup AgentCollections |-> 0]
    /\ ensure_calls = [i \in Invokers |-> NoInvocation]
    /\ points = EmptyDict
    /\ agent_points = [c \in AgentCollections |-> EmptyDict]
    /\ uuids = 0
    /\ vs_ret = StoreRecord("init", <<>>, FALSE, TRUE, 0, 0, Raising(TRUE, <<>>))
    /\ sv_ret = SearchRecord("init", "", <<>>, 0, <<>>, <<>>, <<>>, <<>>, "none", TRUE,
                             Raising(TRUE, <<>>))

InitServices ==
    /\ InitExt
    /\ embedding_cache = EmptyDict
    /\ ret = InitRet
    /\ warm = [t \in Texts |-> <<>>]
    /\ cached_calls = [t \in Texts |-> 0]
    /\ cached_ok = [t \in Texts |-> 0]
    /\ eb_pc = "idle"
    /\ eb_texts = <<>>
    /\ eb_batch_size = 1
    /\ eb_i = 0
    /\ all_embeddings = <<>>
    /\ eb_ret = <<>>
    /\ eb_log = <<>>
    /\ notes = PointIds \ {NumPoints}
    /\ hs_ret = HybridRecord("init", "", 0, 0, 0, "none",
                              Failed(EmptyDict, <<>>), <<>>,
                              [kind |-> "ok", vec |-> QueryVector], "none")
    /\ bs_pc = "idle"
    /\ bs_queries = <<>>
    /\ search_tasks = <<>>
    /\ bs_ret = <<>>

\* a collection in which the point with id v is the one near vector v and no
\* content matches the text filter
Init ==
    /\ InitServices
    /\ sem_score = [p \in PointIds |-> IF p = QueryVector THEN 90 ELSE 50]
    /\ lex_score = [p \in PointIds |-> 0]

\* any collection
InitHybrid ==
    /\ InitServices
    /\ sem_score \in [PointIds -> SemScores]
    /\ lex_score \in [PointIds -> LexScores]

EmbedCall == \E t \in Texts, uc \in BOOLEAN, a \in ProviderAnswers : get_embedding(t, uc, a)

NextEmbed == EmbedCall \/ clear_cache

SpecEmbed == Init /\ [][NextEmbed]_vars

BatchEmbedCall ==
    \E texts \in SeqsUpTo(Texts, MaxTexts), batch_size \in 1..MaxBatch :
        \E a \in ChunkAnswers(Chunk(texts, 0, batch_size)) :
            get_embeddings(texts, batch_size, a.ok, a.vecs)

BatchEmbedResume ==
    \E a \in ChunkAnswers(Chunk(eb_texts, eb_i, eb_batch_size)) :
        get_embeddings_resume(a.ok, a.vecs)

NextBatchEmbed == BatchEmbedCall \/ BatchEmbedResume

SpecBatchEmbed == Init /\ [][NextBatchEmbed]_vars

BatchSearchCall ==
    \E queries \in SeqsUpTo(Texts, MaxQueries), limit \in Limits :
        \E a \in ChunkAnswers(Chunk(queries, 0, DefaultBatchSize)) :
            batch_search(queries, limit, a.ok, a.vecs)

SearchTaskRun ==
    \E i \in 1..MaxQueries, ok \in BOOLEAN : search_task(i, ok)

NextBatchSearch == BatchSearchCall \/ SearchTaskRun \/ batch_search_return

SpecBatchSearch == Init /\ [][NextBatchSearch]_vars

\* The batch operations never read or write the cache, whatever their input:
\* next to the cached embeds they are followed on one list of two texts, in
\* chunks of one text (with a pause) for get_embeddings.
CacheBatch == <<"a", "b">>

CacheBatchCall ==
    \E a \in ChunkAnswers(Chunk(CacheBatch, 0, 1)) :
        get_embeddings(CacheBatch, 1, a.ok, a.vecs)

MetadataCall ==
    \E a \in ChunkAnswers(Chunk(CacheBatch, 0, DefaultBatchSize)) :
        get_embeddings_with_metadata(CacheBatch, a.ok, a.vecs)

\* every operation of EmbeddingService on one instance
NextCache ==
    EmbedCall \/ clear_cache \/ CacheBatchCall \/ BatchEmbedResume \/ MetadataCall

SpecCache == Init /\ [][NextCache]_vars

\* get_embeddings_with_metadata on any list of texts
MetadataAnyCall ==
    \E texts \in SeqsUpTo(Texts, MaxTexts) :
        \E a \in ChunkAnswers(Chunk(texts, 0, DefaultBatchSize)) :
            get_embeddings_with_metadata(texts, a.ok, a.vecs)

\* Arguments of validate_embedding: lists and non-lists (tuples) of a length
\* at, next to or far from VECTOR_SIZE, all floats or all ints, or with one
\* item at an end that is a str or None
ValidateLengths == {0, 1, VECTOR_SIZE - 1, VECTOR_SIZE, VECTOR_SIZE + 1}

Uniform(n, kind) == [k \in 1..n |-> kind]

ValidateItems ==
    {Uniform(n, kind) : n \in ValidateLengths, kind \in Numbers}
    \cup UNION {{[Uniform(n, kind) EXCEPT ![pos] = odd] :
                    kind \in Numbers, pos \in {1, n}, odd \in {"str", "none"}} :
                n \in ValidateLengths \ {0}}

ValidateCall ==
    \E islist \in BOOLEAN, items \in ValidateItems :
        validate_embedding([islist |-> islist, items |-> items])

\* The two operations share no state: each is followed on its own.
NextVectors ==
    \/ val_ret.op = "init" /\ MetadataAnyCall
    \/ eb_pc = "idle" /\ ValidateCall

SpecVectors == Init /\ [][NextVectors]_vars

EmbedBegin == \E c \in Callers, t \in Texts, uc \in BOOLEAN : embed_begin(c, t, uc)

EmbedReturn == \E c \in Callers, a \in ProviderAnswers : embed_return(c, a)

NextConcEmbed == EmbedBegin \/ EmbedReturn \/ clear_cache

SpecConcEmbed == Init /\ [][NextConcEmbed]_vars

ServiceEnsureCheck == \E i \in Invokers : ensure_collection_check(i)

ServiceEnsureCreate == \E i \in Invokers : ensure_collection_create(i)

AgentEnsureCheck ==
    \E i \in Invokers, n \in AgentCollections : agent_ensure_collection_check(i, n)

AgentEnsureCreate == \E i \in Invokers : agent_ensure_collection_create(i)

NextCollection ==
    ServiceEnsureCheck \/ ServiceEnsureCreate \/ AgentEnsureCheck \/ AgentEnsureCreate

SpecCollection == Init /\ [][NextCollection]_vars

UuidsDrawn == {Uuid(n) : n \in 1..MaxUuids}

\* the vectors written by the store operations
StoredVectors == {1, NumVec}

\* The collection of the service and the collection of an agent share
\* nothing: a behaviour follows the operations on one of the two.
ServiceCollectionOnly ==
    /\ \A c \in AgentCollections : agent_points[c] = EmptyDict
    /\ vs_ret.op # "store_memory"

AgentCollectionOnly == points = EmptyDict /\ uuids = 0

StoreVectorCall ==
    /\ ServiceCollectionOnly
    /\ \E v \in StoredVectors, m \in Metadata, ok \in BOOLEAN : store_vector(v, m, ok)

StoreBatchCall ==
    /\ ServiceCollectionOnly
    /\ \E items \in SeqsUpTo([vector : StoredVectors, metadata : Metadata], MaxUuids),
          ok \in BOOLEAN : store_vectors_batch(items, ok)

GetByIdsCall ==
    /\ ServiceCollectionOnly
    /\ \E ids \in SeqsUpTo(UuidsDrawn, 2), ok \in BOOLEAN : get_vectors_by_ids(ids, ok)

UpdateCall ==
    /\ ServiceCollectionOnly
    /\ \E i \in UuidsDrawn, m \in Metadata, ok \in BOOLEAN :
          update_vector_metadata(i, m, ok)

DeleteCall ==
    /\ ServiceCollectionOnly
    /\ \E i \in UuidsDrawn, ok \in BOOLEAN : delete_vector(i, ok)

DeleteBatchCall ==
    /\ ServiceCollectionOnly
    /\ \E ids \in SeqsUpTo(UuidsDrawn, 2), ok \in BOOLEAN : delete_vectors_batch(ids, ok)

StoreMemoryCall ==
    /\ AgentCollectionOnly
    /\ \E n \in AgentNames, t \in Texts, m \in Metadata, a \in ProviderAnswers,
          ok \in BOOLEAN : store_memory(n, t, m, a, ok)

NextPoints ==
    \/ StoreVectorCall
    \/ StoreBatchCall
    \/ GetByIdsCall
    \/ UpdateCall
    \/ DeleteCall
    \/ DeleteBatchCall
    \/ StoreMemoryCall

SpecPoints == Init /\ [][NextPoints]_vars

\* score thresholds given by callers: none, 0, and one above every score
Thresholds == {<<>>, <<0>>, <<95>>}

\* search_vectors keeps nothing from one call to the next: a behaviour follows
\* one call of it
SearchVectorsCall ==
    /\ sv_ret.op = "init"
    /\ \E v \in Vectors, limit \in Limits, t \in Thresholds, f \in FilterDicts,
          ok \in BOOLEAN : search_vectors_call(v, limit, t, f, ok)

\* semantic_search keeps the embedding of its query in the cache: a behaviour
\* follows several calls, with no filter or a filter on the field "kind"
\* without bounds
SemanticFilters ==
    {f \in FilterDicts :
        /\ Len(f) <= 1
        /\ \A k \in 1..Len(f) :
              f[k].field = "kind" /\ f[k].value.gte = <<>> /\ f[k].value.lte = <<>>}

SemanticSearchCall ==
    /\ sv_ret.op \in {"init", "semantic_search"}
    /\ \E q \in HybridQueries, limit \in Limits, t \in Thresholds, f \in SemanticFilters,
          a \in ProviderAnswers, ok \in BOOLEAN : semantic_search(q, limit, t, f, a, ok)

NextSearch == SearchVectorsCall \/ SemanticSearchCall

SpecSearch == Init /\ [][NextSearch]_vars

StoreFailures == {"none", "search", "text_search"}

\* What the collaborators can do in a hybrid search: the provider's answer
\* matters only on a cache miss, a store failure only once the query is embedded.
HybridScenarios(query) ==
    LET fine == [kind |-> "ok", vec |-> QueryVector]
        down == [kind |-> "fail", vec |-> 0]
    IN  IF CacheHit(embedding_cache, query, TRUE)
        THEN [answer : {fine}, fail : StoreFailures]
        ELSE [answer : {fine}, fail : StoreFailures]
             \cup [answer : {down}, fail : {"none"}]

HybridCall ==
    \E query \in HybridQueries, limit \in Limits, w \in WeightPairs :
        \E s \in HybridScenarios(query) :
            hybrid_search(query, limit, w[1], w[2], s.answer, s.fail)

RouteHybridCall ==
    \E query \in HybridQueries, limit \in Limits, w \in WeightPairs :
        \E s \in HybridScenarios(query) :
            route_hybrid_search(query, limit, w[1], w[2], s.answer, s.fail)

NextHybrid == HybridCall \/ RouteHybridCall

SpecHybrid == InitHybrid /\ [][NextHybrid]_vars

\* Result lists given to _combine_search_results: distinct points in any
\* order, the payload of a result being one of the versions of the payload of
\* its point
PayloadVersions == {1, 2}

ResultLists(score) ==
    UNION {{[k \in 1..Len(ids) |->
                [id |-> ids[k], score |-> score,
                 payload |-> [point |-> ids[k], version |-> v[k]]]] :
               v \in [1..Len(ids) -> PayloadVersions]} :
           ids \in {o \in SeqsUpTo(PointIds, NumPoints) :
                       \A i, j \in 1..Len(o) : i # j => o[i] # o[j]}}

\* A call keeps nothing from an earlier one: a behaviour follows one call.
CombineCall ==
    /\ cb_ret.op = "init"
    /\ \E semantic_results \in ResultLists(90), text_results \in ResultLists(80) :
          combine(semantic_results, text_results, 70, 30)

NextCombine == CombineCall

SpecCombine == Init /\ [][NextCombine]_vars

NoteTitles == {<<"t">>}

\* The call of a request that fails, if one does
NoteFailures == {"none", "embed", "store", "db"}

CreateNoteCall ==
    \E content \in Texts, title \in NoteTitles, a \in ProviderAnswers,
       fail \in NoteFailures :
        /\ (fail = "embed") <=> (a.kind # "ok")
        /\ create_note(content, title, a, fail # "store", fail # "db")

DeleteNoteCall ==
    \E note_id \in 1..MaxUuids, fail \in NoteFailures \ {"embed"} :
        delete_note(note_id, fail # "store", fail # "db")

NextNotes == CreateNoteCall \/ DeleteNoteCall

SpecNotes == Init /\ [][NextNotes]_vars

\* Route names asked for (one names no agent), the messages, notes and
\* queries of the requests, the replies of the chat completion
RouteNames == (DOMAIN Agents) \cup {"zed"}
AgentTexts == {<<"a">>, <<"b">>}
Replies == {<<"r">>}
Contexts == Opt({<<"c">>})
AgentLimits == {1, 10}

\* Where a request fails, if it does: a failing call is the last one made,
\* so every call before it has succeeded and the ones after it are not made.
Embedded == [kind |-> "ok", vec |-> 1]

Failing == [kind |-> "fail", vec |-> 0]

RowsLeft == Len(conversations) + Len(note_rows) < MaxRows

\* search_memory, generate_response and search_agent_memory write nothing:
\* what follows one of them is what follows the state it started from, so the
\* next operation is followed from there.
ReadOnly == {"generate_response", "search_memory", "search_agent_memory"}

GenerateResponseCall ==
    /\ ag_ret.op \notin ReadOnly
    /\ \E name \in AgentNames, t \in AgentTexts, c \in Contexts,
          fail \in {"none", "embed", "search", "chat"} :
          \E hits \in Hits(agent_points[CollectionName(name)], 3) :
              generate_response(name, t, c,
                                IF fail = "embed" THEN Failing ELSE Embedded, hits,
                                fail # "search",
                                IF fail = "chat" THEN <<>> ELSE <<"r">>)

SearchMemoryCall ==
    /\ ag_ret.op \notin ReadOnly
    /\ \E name \in AgentNames, t \in AgentTexts, limit \in AgentLimits,
          fail \in {"none", "embed", "search"} :
          \E hits \in Hits(agent_points[CollectionName(name)], limit) :
              search_memory(name, t, limit,
                            IF fail = "embed" THEN Failing ELSE Embedded, hits,
                            fail # "search")

\* A chat request carries a context once there has been a conversation
FollowUp == IF conversations = <<>> THEN {<<>>} ELSE Contexts \ {<<>>}

ChatRouteCall ==
    /\ ag_ret.op \notin ReadOnly
    /\ RowsLeft
    /\ \E n \in RouteNames, t \in AgentTexts, c \in FollowUp,
          fail \in {"none", "embed", "search", "chat", "embed2", "upsert"} :
          \E hits \in IF n \in DOMAIN Agents
                       THEN Hits(agent_points[CollectionName(Agents[n])], 3)
                       ELSE {<<>>} :
              chat_with_agent(n, t, c,
                              IF fail = "embed" THEN Failing ELSE Embedded, hits,
                              fail # "search",
                              IF fail = "chat" THEN <<>> ELSE <<"r">>,
                              IF fail = "embed2" THEN Failing ELSE Embedded,
                              fail # "upsert")

NoteRouteCall ==
    /\ ag_ret.op \notin ReadOnly
    /\ RowsLeft
    /\ \E n \in RouteNames, t \in AgentTexts, fail \in {"none", "embed", "upsert"} :
          agent_store_note(n, t, IF fail = "embed" THEN Failing ELSE Embedded,
                           fail # "upsert")

SearchRouteCall ==
    /\ ag_ret.op \notin ReadOnly
    /\ \E n \in RouteNames, t \in AgentTexts, limit \in AgentLimits,
          fail \in {"none", "embed", "search"}, strict \in BOOLEAN :
          \E hits \in IF n \in DOMAIN Agents
                       THEN Hits(agent_points[CollectionName(Agents[n])], limit)
                       ELSE {<<>>} :
              search_agent_memory(n, t, limit,
                                  IF fail = "embed" THEN Failing ELSE Embedded, hits,
                                  fail # "search", strict)

\* The agents are constructed when routers/agents.py is imported (lines
\* 14-18), in every worker process, before a route runs: the constructors
\* are followed from the empty store, the routes with the collections as
\* the store holds them.
Constructing == ag_ret.op = "init" /\ conversations = <<>> /\ note_rows = <<>>

Serving == collections = {} /\ \A i \in Invokers : ensure_calls[i] = NoInvocation

NextAgents ==
    \/ Constructing /\ AgentEnsureCheck
    \/ Constructing /\ AgentEnsureCreate
    \/ Serving /\ GenerateResponseCall
    \/ Serving /\ SearchMemoryCall
    \/ Serving /\ ChatRouteCall
    \/ Serving /\ NoteRouteCall
    \/ Serving /\ SearchRouteCall

SpecAgents == Init /\ [][NextAgents]_vars

\* The operations that raise on a failed external call, each followed on its
\* own: an operation is started only while no operation of another service
\* method has run (they share the embedding cache and nothing else).
Started ==
    [embed |-> ret.op # "init",
     embed_batch |-> eb_pc # "idle" /\ bs_pc = "idle",
     batch_search |-> bs_pc # "idle",
     hybrid |-> hs_ret.entry # "init",
     points |-> vs_ret.op # "init",
     search |-> sv_ret.op # "init"]

Only(component) == \A c \in (DOMAIN Started) \ {component} : ~Started[c]

NextErrors ==
    \/ Only("embed") /\ EmbedCall
    \/ Only("embed_batch") /\ BatchEmbedCall
    \/ Only("embed_batch") /\ BatchEmbedResume
    \/ Only("batch_search") /\ BatchSearchCall
    \/ Only("batch_search") /\ SearchTaskRun
    \/ Only("batch_search") /\ batch_search_return
    \/ Only("hybrid") /\ HybridCall
    \/ Only("hybrid") /\ RouteHybridCall
    \/ Only("points") /\ StoreVectorCall
    \/ Only("points") /\ StoreBatchCall
    \/ Only("points") /\ GetByIdsCall
    \/ Only("search") /\ SearchVectorsCall
    \/ Only("search") /\ SemanticSearchCall

SpecErrors == Init /\ [][NextErrors]_vars

(***************************************************************************)
(* C1.  Amended claim: once a cached embed of a text t has succeeded, every *)
(* later cached embed of t with no clear_cache in between succeeds, returns *)
(* the same vector and makes no provider call; so between two flushes at    *)
(* most one SUCCESSFUL provider call is made per distinct text by cached    *)
(* embeds (a failed provider call caches nothing and is repeated by the     *)
(* next embed of the text).                                                 *)
(***************************************************************************)
WarmEmbedStep(t) ==
    /\ warm[t] # <<>>
    /\ ret'.op = "get_embedding"
    /\ ret'.text = t
    /\ ret'.use_cache

WarmEmbedSame(t) ==
    /\ ret'.outcome = "ok"
    /\ ret'.value = warm[t]
    /\ ~ret'.provider
    /\ cached_calls' = cached_calls

C1_WarmCacheOneSuccessfulCall ==
    [][\A t \in Texts :
          /\ WarmEmbedStep(t) => WarmEmbedSame(t)
          /\ cached_ok'[t] <= 1]_vars

\* C1 witness: a cached embed answered from a warm cache after the provider
\* had been called for that text.
C1_Witness ==
    /\ ret.op = "get_embedding" /\ ret.use_cache /\ ret.outcome = "ok"
    /\ ~ret.provider
    /\ cached_ok[ret.text] = 1
    /\ ret.value = warm[ret.text]

\* C1 as originally stated: in addition, the provider is invoked at most once
\* per distinct text by cached embeds between two flushes.
C1_Original ==
    [][\A t \in Texts :
          /\ WarmEmbedStep(t) => WarmEmbedSame(t)
          /\ cached_calls'[t] <= 1]_vars

(***************************************************************************)
(* C8.  When get_embeddings(texts, batch_size) returns, it has split texts *)
(* into consecutive chunks of at most batch_size items, has issued exactly *)
(* one provider call per chunk, ceil(len(texts)/batch_size) in total and   *)
(* none for an empty list, and returns len(texts) vectors, the i-th being  *)
(* the provider's vector for texts[i].                                     *)
(***************************************************************************)
ProviderCalls(log) == SelectSeq(log, LAMBDA e : e.kind = "call")

CeilDiv(a, b) == (a + b - 1) \div b

C8_BatchChunksAndOrder ==
    eb_pc = "done" =>
        LET calls == ProviderCalls(eb_log)
            n == Len(eb_texts)
            b == eb_batch_size
        IN  /\ Len(eb_ret) = 1
            /\ Len(eb_ret[1]) = n
            /\ Len(calls) = CeilDiv(n, b)
            /\ \A k \in 1..Len(calls) :
                  /\ calls[k].ok
                  /\ Len(calls[k].input) <= b
                  /\ calls[k].input = SubSeq(eb_texts, (k - 1) * b + 1, Min(k * b, n))
            /\ \A i \in 1..n :
                  eb_ret[1][i] = calls[((i - 1) \div b) + 1].output[((i - 1) % b) + 1]

\* C8 witness: a returned batch of several chunks, the last one partial, with
\* two different vectors in it.
C8_Witness ==
    /\ eb_pc = "done"
    /\ Len(eb_texts) > eb_batch_size
    /\ Len(eb_texts) % eb_batch_size # 0
    /\ Len(eb_ret) = 1
    /\ \E i, j \in 1..Len(eb_ret[1]) : eb_ret[1][i] # eb_ret[1][j]

(***************************************************************************)
(* C9.  If the provider call for a chunk fails, get_embeddings raises: it  *)
(* returns no vectors (none of the earlier chunks either), the failed      *)
(* chunk is not called again and no provider call follows the failed one.  *)
(***************************************************************************)
C9_ChunkFailureFailsBatch ==
    LET calls == ProviderCalls(eb_log)
    IN  /\ \A k \in 1..Len(calls) : ~calls[k].ok => k = Len(calls)
        /\ (calls # <<>> /\ ~calls[Len(calls)].ok) =>
              /\ eb_pc = "error"
              /\ eb_ret = <<>>
              /\ eb_log[Len(eb_log)] = calls[Len(calls)]
        /\ eb_pc = "error" => (calls # <<>> /\ ~calls[Len(calls)].ok)

\* C9 witness: a chunk fails after an earlier chunk succeeded, with chunks
\* still left to do.
C9_Witness ==
    /\ eb_pc = "error"
    /\ all_embeddings # <<>>
    /\ eb_i + eb_batch_size < Len(eb_texts)

(***************************************************************************)
(* C2.  Every entry point taking the two weights, SearchService.           *)
(* hybrid_search called directly as well as POST /search/hybrid, rejects a *)
(* pair with |semantic_weight + text_weight - 1.0| > 0.01 with an error    *)
(* and before any embedding-provider or vector-store call.                 *)
(***************************************************************************)
C2_InvalidWeightsRejected ==
    (/\ hs_ret.entry \in {"service", "route"}
     /\ Abs(hs_ret.semantic_weight + hs_ret.text_weight - 100) > 1)
    => (/\ hs_ret.outcome \in {"error", "http400"}
        /\ hs_ret.calls = <<>>
        /\ hs_ret.results = <<>>)

(***************************************************************************)
(* C3.  The fused list of _combine_search_results holds exactly one entry  *)
(* per distinct id of the two result lists (no id twice, none missing), by *)
(* non-increasing combined score, and hybrid_search returns that list cut  *)
(* to the requested limit.                                                 *)
(***************************************************************************)
C3_FusedOncePerIdSortedCapped ==
    hs_ret.outcome = "ok" =>
        LET combined == hs_ret.combined
            union == Ids(hs_ret.semantic) \cup Ids(hs_ret.text)
        IN  /\ Len(combined) = Cardinality(union)
            /\ {combined[k].id : k \in 1..Len(combined)} = union
            /\ \A j, k \in 1..Len(combined) :
                  combined[j].id = combined[k].id => j = k
            /\ \A k \in 1..(Len(combined) - 1) :
                  combined[k].score >= combined[k + 1].score
            /\ hs_ret.results =
                  SubSeq(combined, 1, Min(hs_ret.limit, Len(combined)))

\* C3 witness: two lists that share an id and differ in another one, fused
\* into a list longer than the limit.
C3_Witness ==
    /\ hs_ret.outcome = "ok"
    /\ Ids(hs_ret.semantic) \cap Ids(hs_ret.text) # {}
    /\ Ids(hs_ret.semantic) # Ids(hs_ret.text)
    /\ Len(hs_ret.combined) > hs_ret.limit
    /\ hs_ret.combined[1].score > hs_ret.combined[2].score

(***************************************************************************)
(* C4.  In the fused list an id found only by the semantic search has text *)
(* score 0 and the score of its semantic result as semantic score, and an  *)
(* id found only by the text search has semantic score 0 and the score of  *)
(* its text result as text score.                                          *)
(***************************************************************************)
HasScore(results, point_id, score) ==
    \E k \in 1..Len(results) : results[k].id = point_id /\ results[k].score = score

C4_OneSidedScores ==
    hs_ret.outcome = "ok" =>
        \A k \in 1..Len(hs_ret.combined) :
            LET e == hs_ret.combined[k]
            IN  /\ (e.id \in Ids(hs_ret.semantic) \ Ids(hs_ret.text)) =>
                      /\ e.text_score = 0
                      /\ HasScore(hs_ret.semantic, e.id, e.semantic_score)
                /\ (e.id \in Ids(hs_ret.text) \ Ids(hs_ret.semantic)) =>
                      /\ e.semantic_score = 0
                      /\ HasScore(hs_ret.text, e.id, e.text_score)

\* C4 witness: a fused list with an id of the semantic list only and an id of
\* the text list only.
C4_Witness ==
    /\ hs_ret.outcome = "ok"
    /\ Ids(hs_ret.semantic) \ Ids(hs_ret.text) # {}
    /\ Ids(hs_ret.text) \ Ids(hs_ret.semantic) # {}
    /\ Len(hs_ret.combined) = 2

(***************************************************************************)
(* C5.  Every fused entry has score = semantic_weight * semantic_score +   *)
(* text_weight * text_score, for the two scores reported in that entry.    *)
(***************************************************************************)
C5_CombinedScoreIsWeightedSum ==
    hs_ret.outcome = "ok" =>
        \A k \in 1..Len(hs_ret.combined) :
            LET e == hs_ret.combined[k]
            IN  e.score = hs_ret.semantic_weight * e.semantic_score
                          + hs_ret.text_weight * e.text_score

\* C5 witness: an entry with both scores, different from each other, fused
\* under two different weights.
C5_Witness ==
    /\ hs_ret.outcome = "ok"
    /\ hs_ret.semantic_weight # hs_ret.text_weight
    /\ \E k \in 1..Len(hs_ret.combined) :
          /\ hs_ret.combined[k].semantic_score > 0
          /\ hs_ret.combined[k].text_score > 0
          /\ hs_ret.combined[k].semantic_score # hs_ret.combined[k].text_score

(***************************************************************************)
(* C10.  hybrid_search asks the semantic search for exactly 2*limit        *)
(* candidates and the text search for exactly 2*limit candidates, fuses    *)
(* the two lists it got and returns the first min(limit, fused length)     *)
(* entries of the fused list in fused order; total_found is the number of  *)
(* entries returned.                                                       *)
(***************************************************************************)
StoreCalls(calls, svc) == SelectSeq(calls, LAMBDA c : c.svc = svc)

C10_OverFetchFuseTruncate ==
    (hs_ret.entry \in {"service", "route"} /\ hs_ret.outcome = "ok") =>
        /\ StoreCalls(hs_ret.calls, "search") =
              <<[svc |-> "search", limit |-> 2 * hs_ret.limit]>>
        /\ StoreCalls(hs_ret.calls, "text_search") =
              <<[svc |-> "text_search", limit |-> 2 * hs_ret.limit]>>
        /\ hs_ret.semantic = search_vectors(QueryVector, 2 * hs_ret.limit, <<>>)
        /\ hs_ret.text = search_by_text_similarity(2 * hs_ret.limit, <<>>)
        /\ Ids(hs_ret.semantic) \cup Ids(hs_ret.text) =
              {hs_ret.combined[k].id : k \in 1..Len(hs_ret.combined)}
        /\ Len(hs_ret.results) = Min(hs_ret.limit, Len(hs_ret.combined))
        /\ \A k \in 1..Len(hs_ret.results) : hs_ret.results[k] = hs_ret.combined[k]
        /\ hs_ret.total_found = Len(hs_ret.results)

\* C10 witness: a direct call whose fused list is longer than the limit.
C10_Witness ==
    /\ hs_ret.entry = "service"
    /\ hs_ret.outcome = "ok"
    /\ Len(hs_ret.combined) > hs_ret.limit
    /\ hs_ret.total_found = hs_ret.limit

(***************************************************************************)
(* C6.  When batch_search(queries, limit) returns, it returns exactly      *)
(* len(queries) groups, and the i-th group has query = queries[i],         *)
(* query_index = i (counted from 0) and the results of the vector search   *)
(* issued for the embedding the provider gave for queries[i], whatever the *)
(* order in which the searches completed.                                  *)
(***************************************************************************)
\* the vector the provider returned for the i-th query of the batch
ProvidedFor(i) == ProviderCalls(eb_log)[1].output[i]

C6_BatchGroupsAlignedWithQueries ==
    bs_pc = "done" =>
        /\ Len(bs_ret) = 1
        /\ Len(bs_ret[1]) = Len(bs_queries)
        /\ \A i \in 1..Len(bs_queries) :
              LET g == bs_ret[1][i]
              IN  /\ g.query = bs_queries[i]
                  /\ g.query_index = i - 1
                  /\ search_tasks[i].vector = ProvidedFor(i)
                  /\ search_tasks[i].state = "ok"
                  /\ g.results = search_tasks[i].results
                  /\ g.results = search_vectors(ProvidedFor(i), search_tasks[i].limit, <<>>)
                  /\ g.total_found = Len(g.results)

\* C6 witness: a returned batch of two queries whose searches completed in
\* the reverse order and found different points.
C6_Witness ==
    /\ bs_pc = "done"
    /\ Len(bs_queries) >= 2
    /\ search_tasks[1].done_at > search_tasks[2].done_at
    /\ Len(bs_ret) = 1
    /\ bs_ret[1][1].results # bs_ret[1][2].results
    /\ bs_ret[1][1].query # bs_ret[1][2].query

(***************************************************************************)
(* C7.  If the embedding of the queries or any one of the per-query vector *)
(* searches fails, batch_search fails as a whole: it raises and returns no *)
(* result groups, never a partial list of the queries that succeeded.      *)
(***************************************************************************)
BatchFailure ==
    \/ (bs_pc # "idle" /\ eb_pc = "error")
    \/ \E i \in 1..Len(search_tasks) : search_tasks[i].state = "failed"

C7_BatchFailsAsAWhole ==
    /\ BatchFailure => (bs_pc = "error" /\ bs_ret = <<>>)
    /\ bs_ret # <<>> => (bs_pc = "done" /\ Len(bs_ret[1]) = Len(bs_queries))

\* C7 witness: one search of the batch returned results and another failed.
C7_Witness ==
    /\ bs_pc = "error"
    /\ \E i, j \in 1..Len(search_tasks) :
          /\ search_tasks[i].state = "ok"
          /\ search_tasks[i].results # <<>>
          /\ search_tasks[j].state = "failed"
          /\ search_tasks[j].done_at > search_tasks[i].done_at

(***************************************************************************)
(* C11.  Amended claim: whenever get_embedding(text, use_cache) does not   *)
(* answer from the cache (text is not a cache key, or use_cache is false), *)
(* it calls the provider exactly once, and on success with use_cache true  *)
(* the cache maps the exact text to the returned vector afterwards; on     *)
(* success with use_cache false the cache is left exactly as it was.       *)
(***************************************************************************)
NotFromCache(t, uc) == ~uc \/ t \notin DOMAIN embedding_cache

OneProviderCall(t, uc) ==
    /\ ret'.provider
    /\ ret'.answer # "none"
    /\ uc => cached_calls'[t] = cached_calls[t] + 1

C11_MissCallsProviderAndCaches ==
    [][ret'.op = "get_embedding" =>
          LET t == ret'.text
              uc == ret'.use_cache
          IN  /\ NotFromCache(t, uc) => OneProviderCall(t, uc)
              /\ ~NotFromCache(t, uc) => ~ret'.provider
              /\ (NotFromCache(t, uc) /\ ret'.answer = "ok" /\ uc) =>
                    /\ t \in DOMAIN embedding_cache'
                    /\ <<embedding_cache'[t]>> = ret'.value
              /\ (NotFromCache(t, uc) /\ ret'.answer = "ok" /\ ~uc) =>
                    embedding_cache' = embedding_cache]_vars

\* C11 witness: an embed with use_cache false of a cached text got another
\* vector from the provider, and the cache still holds the earlier one.
C11_Witness ==
    /\ ret.op = "get_embedding" /\ ~ret.use_cache
    /\ ret.provider /\ ret.answer = "ok" /\ ret.outcome = "ok"
    /\ ret.text \in DOMAIN embedding_cache
    /\ <<embedding_cache[ret.text]>> # ret.value
    /\ cached_ok[ret.text] = 1

\* C11 as originally stated: on success the cache maps the text to the
\* returned vector, also when use_cache is false.
C11_Original ==
    [][ret'.op = "get_embedding" =>
          LET t == ret'.text
              uc == ret'.use_cache
          IN  /\ NotFromCache(t, uc) => OneProviderCall(t, uc)
              /\ (NotFromCache(t, uc) /\ ret'.answer = "ok") =>
                    /\ t \in DOMAIN embedding_cache'
                    /\ <<embedding_cache'[t]>> = ret'.value]_vars

(***************************************************************************)
(* C12.  If the provider call made by get_embedding fails or returns a     *)
(* payload with no vector, get_embedding raises, returns no vector and     *)
(* leaves the cache exactly as it was; the same call made again calls the  *)
(* provider again.                                                         *)
(***************************************************************************)
C12_FailedEmbedLeavesCache ==
    [][/\ (ret'.op = "get_embedding" /\ ret'.answer \in {"fail", "empty"}) =>
             /\ ret'.outcome = "error"
             /\ ret'.value = <<>>
             /\ embedding_cache' = embedding_cache
       /\ (/\ ret.op = "get_embedding" /\ ret.answer \in {"fail", "empty"}
           /\ ret'.op = "get_embedding"
           /\ ret'.text = ret.text /\ ret'.use_cache = ret.use_cache) =>
             /\ ret'.provider
             /\ ret'.answer # "none"]_vars

\* C12 witness: the second cached embed of a text fails as the first one did,
\* on a payload with no vector, while the other text stays cached.
C12_Witness ==
    /\ ret.op = "get_embedding" /\ ret.use_cache
    /\ ret.answer = "empty" /\ ret.outcome = "error"
    /\ cached_calls[ret.text] = 2 /\ cached_ok[ret.text] = 0
    /\ DOMAIN embedding_cache = Texts \ {ret.text}

(***************************************************************************)
(* C13.  Between two flushes the embedding cache only grows: a step of     *)
(* get_embedding, get_embeddings or get_embeddings_with_metadata keeps     *)
(* every entry text -> vector it found, unchanged; only clear_cache        *)
(* removes entries, it leaves the cache empty, and the embed that follows  *)
(* a clear_cache calls the provider.                                       *)
(***************************************************************************)
EntriesKept ==
    \A t \in DOMAIN embedding_cache :
        /\ t \in DOMAIN embedding_cache'
        /\ embedding_cache'[t] = embedding_cache[t]

Flushed ==
    /\ ret'.op = "clear_cache"
    /\ embedding_cache' = EmptyDict

C13_CacheGrowsUntilFlushed ==
    [][/\ EntriesKept \/ Flushed
       /\ ret'.op = "clear_cache" => embedding_cache' = EmptyDict
       /\ (ret.op = "clear_cache" /\ ret'.op = "get_embedding") =>
             /\ ret'.provider
             /\ ret'.answer # "none"]_vars

\* C13 witness: with both texts cached, an embed with use_cache false got
\* another vector for one of them after a batch had been embedded.
C13_Witness ==
    /\ DOMAIN embedding_cache = Texts
    /\ eb_pc = "done" /\ eb_texts # <<>>
    /\ ret.op = "get_embedding" /\ ~ret.use_cache /\ ret.answer = "ok"
    /\ <<embedding_cache[ret.text]>> # ret.value

(***************************************************************************)
(* C14.  Under any interleaving of concurrent get_embedding calls and      *)
(* clear_cache, every cache entry of a text t holds a (whole) vector that  *)
(* the provider returned for t, every finished call has returned such a    *)
(* vector or raised, and a call makes at most one provider call: the only  *)
(* extra cost of an interleaving is a second provider call for a text.     *)
(***************************************************************************)
C14_InterleavedEmbedsKeepCacheSound ==
    /\ \A t \in DOMAIN embedding_cache :
          /\ embedding_cache[t] \in Vectors
          /\ embedding_cache[t] \in provided[t]
    /\ \A c \in Callers :
          /\ embed_calls[c].pc \in {"idle", "provider", "done", "error"}
          /\ embed_calls[c].provider_calls <= 1
          /\ embed_calls[c].pc = "done" =>
                /\ Len(embed_calls[c].value) = 1
                /\ embed_calls[c].value[1] \in provided[embed_calls[c].text]
          /\ embed_calls[c].pc = "error" =>
                /\ embed_calls[c].value = <<>>
                /\ embed_calls[c].provider_calls = 1

\* C14 witness: two cached embeds of one text both missed, both called the
\* provider and got different vectors; the cache holds one of the two.
C14_Witness ==
    \E c, d \in Callers :
        /\ c # d
        /\ embed_calls[c].pc = "done" /\ embed_calls[d].pc = "done"
        /\ embed_calls[c].text = embed_calls[d].text
        /\ embed_calls[c].use_cache /\ embed_calls[d].use_cache
        /\ embed_calls[c].provider_calls = 1 /\ embed_calls[d].provider_calls = 1
        /\ embed_calls[c].value # embed_calls[d].value
        /\ embed_calls[c].text \in DOMAIN embedding_cache
        /\ <<embedding_cache[embed_calls[c].text]>> = embed_calls[d].value

(***************************************************************************)
(* C15.  Any number of _ensure_collection_exists invocations on one        *)
(* collection name, also two whose existence checks both complete before   *)
(* either create is issued, all complete successfully, and the collection  *)
(* is created exactly once (an existing collection is never re-created).   *)
(***************************************************************************)
C15_EnsureCollectionIdempotent ==
    /\ \A i \in Invokers : ensure_calls[i].pc # "error"
    /\ \A n \in DOMAIN created :
          /\ created[n] <= 1
          /\ n \in collections <=> created[n] = 1

(***************************************************************************)
(* C16.  Storing the same vector and payload twice through the write       *)
(* operation (VectorService.store_vector, BaseAgent.store_memory) leaves   *)
(* one retrievable point for it, carrying the latest payload: the second   *)
(* call returns the id of the first and the point count of the collection  *)
(* does not grow again.                                                    *)
(***************************************************************************)
StoredAgain ==
    /\ vs_ret.op \in {"store_vector", "store_memory"}
    /\ vs_ret'.op = vs_ret.op
    /\ vs_ret.outcome = "ok" /\ vs_ret'.outcome = "ok"
    /\ vs_ret'.args = vs_ret.args

C16_UpsertTwiceOnePoint ==
    [][StoredAgain =>
          /\ vs_ret'.value = vs_ret.value
          /\ vs_ret'.after = vs_ret.after]_vars

(***************************************************************************)
(* C19.  update_vector_metadata, delete_vector and delete_vectors_batch    *)
(* never raise: each returns True when the store call returns normally,    *)
(* also for an id that does not exist, and False when the store call       *)
(* fails.                                                                  *)
(***************************************************************************)
BestEffortOps == {"update_vector_metadata", "delete_vector", "delete_vectors_batch"}

C19_BestEffortNeverRaises ==
    vs_ret.op \in BestEffortOps =>
        /\ vs_ret.outcome = "ok"
        /\ vs_ret.value = <<vs_ret.store_ok>>

\* C19 witness: deleting a batch with an id that does not exist from a
\* collection that holds a point, the store call failing: False is returned.
C19_Witness ==
    /\ vs_ret.op = "delete_vectors_batch"
    /\ ~vs_ret.store_ok /\ ~vs_ret.known
    /\ vs_ret.outcome = "ok" /\ vs_ret.value = <<FALSE>>
    /\ DOMAIN points # {}

(***************************************************************************)
(* C17.  For every filter mapping passed to search_vectors, the filter     *)
(* sent to the store holds one required condition for each field of the    *)
(* mapping, a range condition with the given bounds when the value is a    *)
(* {gte?, lte?} mapping and an exact-match condition otherwise; no field   *)
(* is dropped, and every returned result meets the condition of every      *)
(* field.                                                                  *)
(***************************************************************************)
ConditionFor(item, c) ==
    /\ c.key = item.field
    /\ IF item.value.isdict
       THEN c.kind = "range" /\ c.gte = item.value.gte /\ c.lte = item.value.lte
       ELSE c.kind = "match" /\ c.match = item.value.value

C17_FilterKeepsEveryField ==
    (sv_ret.op \in {"search_vectors", "semantic_search"}
     /\ sv_ret.sent # <<>> /\ sv_ret.store_ok /\ sv_ret.filter_conditions # <<>>) =>
        LET items == sv_ret.filter_conditions
            query_filter == sv_ret.sent[1].query_filter
        IN  /\ query_filter # <<>>
            /\ Len(query_filter[1]) = Len(items)
            /\ \A j \in 1..Len(items) :
                  /\ \E k \in 1..Len(query_filter[1]) :
                        ConditionFor(items[j], query_filter[1][k])
                  /\ \A k \in 1..Len(sv_ret.results) :
                        LET p == sv_ret.results[k].id
                            f == items[j].field
                            v == items[j].value
                        IN  /\ f \in DOMAIN PointMeta(p)
                            /\ ~v.isdict => PointMeta(p)[f] = v.value
                            /\ (v.isdict /\ v.gte # <<>>) => PointMeta(p)[f] >= v.gte[1]
                            /\ (v.isdict /\ v.lte # <<>>) => PointMeta(p)[f] <= v.lte[1]

(***************************************************************************)
(* C18.  search_vectors sends the configured SIMILARITY_THRESHOLD exactly  *)
(* when the caller gives no score_threshold and the caller's value         *)
(* otherwise, 0 included; what it returns is the store's answer in the     *)
(* store's order, by descending score, with no result below the threshold  *)
(* in force and at most limit results, and it is the empty list, not an    *)
(* error, when no point meets the threshold and the filter.                *)
(***************************************************************************)
InForce(score_threshold) ==
    IF Len(score_threshold) = 0 THEN SIMILARITY_THRESHOLD ELSE score_threshold[1]

Meeting(score, score_threshold, query_filter) ==
    {p \in PointIds :
        /\ score[p] >= score_threshold
        /\ query_filter # <<>> =>
              \A k \in 1..Len(query_filter[1]) : Meets(p, query_filter[1][k])}

C18_ThresholdDefaultOrderLimit ==
    (sv_ret.op = "search_vectors" /\ sv_ret.store_ok) =>
        LET results == sv_ret.results
            sent == sv_ret.sent[1]
            score == StoreScores(sv_ret.query_vector[1])
        IN  /\ sv_ret.outcome = "ok"
            /\ sent.score_threshold = InForce(sv_ret.score_threshold)
            /\ sent.limit = sv_ret.limit
            /\ Len(results) = Len(sv_ret.hits)
            /\ \A k \in 1..Len(results) :
                  /\ results[k].id = sv_ret.hits[k]
                  /\ results[k].score = score[results[k].id]
                  /\ results[k].score >= InForce(sv_ret.score_threshold)
            /\ \A k \in 1..(Len(results) - 1) : results[k].score >= results[k + 1].score
            /\ Len(results) <= sv_ret.limit
            /\ Len(results) = Min(sv_ret.limit,
                                  Cardinality(Meeting(score, InForce(sv_ret.score_threshold),
                                                      sent.query_filter)))

\* C18 witness: a search with score_threshold 0 returns, after the best
\* point, a point scoring below the configured threshold.
C18_Witness ==
    /\ sv_ret.op = "search_vectors" /\ sv_ret.store_ok
    /\ sv_ret.score_threshold = <<0>>
    /\ Len(sv_ret.results) = 2
    /\ sv_ret.results[1].score > SIMILARITY_THRESHOLD
    /\ sv_ret.results[2].score < SIMILARITY_THRESHOLD

(***************************************************************************)
(* C20.  In store_vector, store_vectors_batch, search_vectors,             *)
(* get_vectors_by_ids, semantic_search, hybrid_search, batch_search,       *)
(* get_embedding and get_embeddings, a failure of any single external call *)
(* (provider or store) aborts the operation and reaches the caller as an   *)
(* error: none of them returns a result after one of its external calls    *)
(* failed.                                                                 *)
(***************************************************************************)
Bad == {"fail", "empty"}

HybridCalled(svc) == \E k \in 1..Len(hs_ret.calls) : hs_ret.calls[k].svc = svc

HybridExternalFailure ==
    \/ HybridCalled("embed") /\ hs_ret.answer \in Bad
    \/ HybridCalled("search") /\ hs_ret.fail = "search"
    \/ HybridCalled("text_search") /\ hs_ret.fail = "text_search"

C20_ExternalFailureRaises ==
    /\ (ret.op = "get_embedding" /\ ret.answer \in Bad) =>
          ret.outcome = "error" /\ ret.value = <<>>
    /\ (\E k \in 1..Len(eb_log) : eb_log[k].kind = "call" /\ ~eb_log[k].ok) =>
          eb_pc = "error" /\ eb_ret = <<>>
    /\ BatchFailure => bs_pc = "error" /\ bs_ret = <<>>
    /\ HybridExternalFailure =>
          /\ hs_ret.outcome \in {"error", "http500"}
          /\ hs_ret.results = <<>> /\ hs_ret.response = <<>>
    /\ (vs_ret.op \in {"store_vector", "store_vectors_batch", "get_vectors_by_ids"}
        /\ ~vs_ret.store_ok) =>
          vs_ret.outcome = "error" /\ vs_ret.value = <<>>
    /\ (sv_ret.op \in {"search_vectors", "semantic_search"}
        /\ (~sv_ret.store_ok \/ sv_ret.provider \in Bad)) =>
          sv_ret.outcome = "error" /\ sv_ret.results = <<>>

\* C20 witness: a semantic search whose query was answered from the cache
\* fails because the store call fails.
C20_Witness ==
    /\ sv_ret.op = "semantic_search"
    /\ sv_ret.provider = "none" /\ sv_ret.query_vector # <<>>
    /\ ~sv_ret.store_ok
    /\ sv_ret.outcome = "error" /\ sv_ret.results = <<>>
    /\ sv_ret.query \in DOMAIN embedding_cache

(***************************************************************************)
(* C21.  get_embeddings_with_metadata(texts) returns len(texts) records;   *)
(* the record at position i has index i, text texts[i], the embedding that *)
(* get_embeddings produced at position i and, as dimension, the length of  *)
(* that embedding.                                                         *)
(***************************************************************************)
C21_MetadataRecordPerText ==
    em_ret # <<>> =>
        /\ eb_pc = "done"
        /\ Len(em_ret[1]) = Len(eb_texts)
        /\ \A k \in 1..Len(em_ret[1]) :
              /\ em_ret[1][k].index = k - 1
              /\ em_ret[1][k].text = eb_texts[k]
              /\ em_ret[1][k].embedding = eb_ret[1][k]
              /\ em_ret[1][k].dimension = Len(Components(eb_ret[1][k]))

\* C21 witness: three records, the texts and the embeddings not all the same
C21_Witness ==
    /\ em_ret # <<>>
    /\ Len(em_ret[1]) = 3
    /\ em_ret[1][1].text # em_ret[1][2].text
    /\ em_ret[1][2].embedding # em_ret[1][3].embedding
    /\ em_ret[1][3].index = 2
    /\ em_ret[1][3].dimension = VECTOR_SIZE

(***************************************************************************)
(* C22.  validate_embedding(embedding) returns True if and only if         *)
(* embedding is a list of VECTOR_SIZE items that are all numbers; a list   *)
(* of VECTOR_SIZE items one of which is not a number gives False.          *)
(***************************************************************************)
C22_ValidateIffNumericOfSize ==
    val_ret.op = "validate_embedding" =>
        (val_ret.result <=>
            /\ val_ret.embedding.islist
            /\ Len(val_ret.embedding.items) = VECTOR_SIZE
            /\ AllNumbers(val_ret.embedding))

(***************************************************************************)
(* C23.  Original claim: BaseAgent.generate_response searches the agent's  *)
(* collection for at most 3 memories, calls the chat completion and then   *)
(* upserts the (input, generated text) pair into the agent's collection:   *)
(* whenever it returns generated text the pair has been stored.            *)
(***************************************************************************)
PairStored(record) ==
    /\ \E k \in 1..Len(record.calls) :
          record.calls[k] = UpsertCall(record.agent, PairText(record.input, record.value[1]))
    /\ \E id \in DOMAIN agent_points[CollectionName(record.agent)] :
          agent_points[CollectionName(record.agent)][id].payload.text =
              PairText(record.input, record.value[1])

C23_Original ==
    (ag_ret.op = "generate_response" /\ ag_ret.outcome = "ok") => PairStored(ag_ret)

(***************************************************************************)
(* C23.  Amended claim: generate_response makes, in this order, the        *)
(* embedding call for the input, a search of the agent's own collection    *)
(* with limit 3 and the chat-completion call with the agent's persona, the *)
(* input, the texts of the memories found and the context, and returns the *)
(* generated text without storing anything.  The chat_with_agent route     *)
(* runs generate_response, commits a Conversation row and then upserts the *)
(* pair into the agent's collection (store_memory): whenever the route     *)
(* returns generated text the pair has been stored.                        *)
(***************************************************************************)
C23_RespondSearchesChatsRouteStores ==
    (ag_ret.op \in {"generate_response", "chat_with_agent"} /\ ag_ret.outcome # "http404") =>
        LET calls == ag_ret.calls
            own == CollectionName(ag_ret.agent)
        IN  /\ Len(calls) >= 1 /\ calls[1] = EmbeddingCall(ag_ret.input)
            /\ Len(calls) >= 2 => calls[2] = SearchCall(ag_ret.agent, ag_ret.input, 3)
            /\ Len(calls) >= 2 => (calls[2].collection = own /\ calls[2].limit = 3)
            /\ Len(ag_ret.found) <= 3
            /\ Len(calls) >= 3 =>
                  /\ calls[3].svc = "chat"
                  /\ calls[3].collection = ag_ret.agent
                  /\ calls[3].input = ag_ret.input
                  /\ calls[3].memories =
                        [k \in 1..Len(ag_ret.found) |-> ag_ret.found[k].text]
            /\ \A k \in 1..Len(calls) :
                  /\ calls[k].svc = "search" => k = 2
                  /\ calls[k].svc = "chat" => k = 3
                  /\ calls[k].svc = "upsert" => (k = 6 /\ ag_ret.op = "chat_with_agent")
            /\ (ag_ret.op = "generate_response" /\ ag_ret.outcome = "ok") =>
                  Len(calls) = 3 /\ ag_ret.value \in Replies
            /\ (ag_ret.op = "chat_with_agent" /\ ag_ret.outcome = "ok") =>
                  Len(calls) = 7 /\ ag_ret.value \in Replies /\ PairStored(ag_ret)

\* C23 witness: the route answered a follow-up request for which a memory was
\* found, and the pair is in the agent's collection.
C23_Witness ==
    /\ ag_ret.op = "chat_with_agent" /\ ag_ret.outcome = "ok"
    /\ Len(ag_ret.found) = 1
    /\ ag_ret.calls[3].memories # <<>> /\ ag_ret.calls[3].context # <<>>
    /\ ag_ret.calls[2].collection = "agent_penny"
    /\ PairStored(ag_ret)

(***************************************************************************)
(* C24.  Every operation of an agent searches and writes the collection    *)
(* CollectionName(name) only: the collections of the other agents and the  *)
(* collection of the service are left as they were.  A constructor creates *)
(* a collection only when it is absent.                                    *)
(***************************************************************************)
C24_AgentTouchesOwnCollectionOnly ==
    [][/\ ag_ret'.agent \in AgentNames =>
             /\ \A c \in AgentCollections \ {CollectionName(ag_ret'.agent)} :
                   agent_points'[c] = agent_points[c]
             /\ points' = points
             /\ \A k \in 1..Len(ag_ret'.calls) :
                   ag_ret'.calls[k].svc \in {"search", "upsert"} =>
                       ag_ret'.calls[k].collection = CollectionName(ag_ret'.agent)
       /\ \A n \in AgentCollections :
             /\ created'[n] # created[n] => (n \notin collections /\ n \in collections')
             /\ n \in collections => n \in collections'
       /\ COLLECTION_NAME \notin collections']_vars

\* C24 witness: each of two agents holds a memory of its own in its own
\* collection, the second written after the first.
C24_Witness ==
    /\ \A name \in AgentNames :
          /\ DOMAIN agent_points[CollectionName(name)] # {}
          /\ \A id \in DOMAIN agent_points[CollectionName(name)] :
                agent_points[CollectionName(name)][id].payload.agent = name
    /\ ag_ret.op \in {"chat_with_agent", "store_note"} /\ ag_ret.outcome = "ok"

\* C24 witness of the constructors: a collection was created by one of them
\* and found present by another.
C24_WitnessCreated ==
    /\ created["agent_cara"] = 1 /\ "agent_cara" \in collections
    /\ \E i, j \in Invokers :
          /\ i # j
          /\ ensure_calls[i].pc = "done" /\ ensure_calls[j].pc = "done"
          /\ ensure_calls[i].collection_name = "agent_cara"
          /\ ensure_calls[j].collection_name = "agent_cara"

(***************************************************************************)
(* C25.  After any sequence of store_memory calls of an agent with         *)
(* pairwise different texts (nothing is ever deleted from an agent's       *)
(* collection), every text stored is still the text of a point of the      *)
(* collection, and the collection holds as many points as calls returned.  *)
(***************************************************************************)
C25_StoredMemoriesAreKept ==
    \A c \in AgentCollections :
        /\ \A t \in remembered[c] :
              \E id \in DOMAIN agent_points[c] : agent_points[c][id].payload.text = t
        /\ Cardinality(DOMAIN agent_points[c]) = Cardinality(remembered[c])

(***************************************************************************)
(* C30.  When the memory search of search_agent_memory returns, the route  *)
(* answers with one result per memory found, in order, each tagged         *)
(* 'conversation', 'note' or (matched by no row) 'memory'; the request     *)
(* does not fail.                                                          *)
(***************************************************************************)
C30_OneResultPerMemoryFound ==
    (ag_ret.op = "search_agent_memory" /\ ag_ret.searched) =>
        /\ ag_ret.outcome = "ok"
        /\ Len(ag_ret.value) = Len(ag_ret.found)
        /\ \A k \in 1..Len(ag_ret.value) :
              /\ ag_ret.value[k].content = ag_ret.found[k].text
              /\ ag_ret.value[k].source \in {"conversation", "note", "memory"}

(***************************************************************************)
(* C26.  get_embeddings works through its chunks one after the other: a    *)
(* provider call is issued only after the call before it has returned and  *)
(* a pause has been taken, and a pause is taken only between two chunks.   *)
(* A run that returns after c >= 1 chunks has taken c - 1 pauses; no pause *)
(* comes before the first chunk or after the last.                         *)
(***************************************************************************)
Pauses(log) == SelectSeq(log, LAMBDA e : e.kind = "sleep")

C26_ChunksSequentialPausesBetween ==
    LET calls == ProviderCalls(eb_log)
        c == CeilDiv(Len(eb_texts), eb_batch_size)
    IN  /\ \A k \in 1..Len(eb_log) :
              eb_log[k].kind = (IF k % 2 = 1 THEN "call" ELSE "sleep")
        /\ \A k \in 1..Len(calls) - 1 : calls[k].ok
        /\ Len(calls) <= c
        /\ eb_pc = "sleep" =>
              /\ Len(eb_log) > 0 /\ eb_log[Len(eb_log)].kind = "sleep"
              /\ Len(Pauses(eb_log)) = Len(calls)
              /\ Len(calls) < c
        /\ eb_pc \in {"done", "error"} /\ Len(eb_texts) > 0 =>
              /\ eb_log[Len(eb_log)].kind = "call"
              /\ Len(Pauses(eb_log)) = Len(calls) - 1
        /\ eb_pc = "done" /\ Len(eb_texts) > 0 =>
              Len(calls) = c /\ Len(Pauses(eb_log)) = c - 1
        /\ eb_pc = "done" /\ Len(eb_texts) = 0 => eb_log = <<>>

\* C26 witness: a run over three chunks has returned after two pauses.
C26_Witness ==
    /\ eb_pc = "done"
    /\ Len(ProviderCalls(eb_log)) = 3
    /\ Len(Pauses(eb_log)) = 2
    /\ eb_log[2].kind = "sleep" /\ eb_log[4].kind = "sleep"

(***************************************************************************)
(* C27.  In the list _combine_search_results returns, the entry of an id   *)
(* that is in both result lists carries the payload of the semantic        *)
(* result, the entry of an id that is in the text list only carries the    *)
(* payload of the text result, and no entry carries the payload of a       *)
(* result with another id.                                                 *)
(***************************************************************************)
ResultWith(results, point_id) ==
    results[CHOOSE k \in 1..Len(results) : results[k].id = point_id]

C27_PayloadSemanticFirst ==
    cb_ret.op = "combine" =>
        \A k \in 1..Len(cb_ret.combined) :
            LET entry == cb_ret.combined[k]
            IN  /\ entry.id \in Ids(cb_ret.semantic_results) =>
                      entry.payload = ResultWith(cb_ret.semantic_results, entry.id).payload
                /\ (entry.id \notin Ids(cb_ret.semantic_results)
                    /\ entry.id \in Ids(cb_ret.text_results)) =>
                      entry.payload = ResultWith(cb_ret.text_results, entry.id).payload
                /\ entry.payload.point = entry.id

\* C27 witness: one id in both lists with two versions of its payload, the
\* semantic one returned, and another id in the text list only.
C27_Witness ==
    /\ cb_ret.op = "combine"
    /\ \E k, j \in 1..Len(cb_ret.combined) :
          LET both == cb_ret.combined[k]
              lexical == cb_ret.combined[j]
          IN  /\ both.id \in Ids(cb_ret.semantic_results) \cap Ids(cb_ret.text_results)
              /\ ResultWith(cb_ret.semantic_results, both.id).payload #
                     ResultWith(cb_ret.text_results, both.id).payload
              /\ both.payload = ResultWith(cb_ret.semantic_results, both.id).payload
              /\ lexical.id \notin Ids(cb_ret.semantic_results)
              /\ lexical.payload = ResultWith(cb_ret.text_results, lexical.id).payload

(***************************************************************************)
(* C28.  create_note calls get_embedding, then store_vector, then commits  *)
(* the Note row.  A row is committed only by a request whose store_vector  *)
(* returned, and its vector_id is the id store_vector returned, the id of  *)
(* the point written.  A request whose embedding or store_vector call      *)
(* failed creates no row and no point.                                     *)
(***************************************************************************)
Services(calls) == [k \in 1..Len(calls) |-> calls[k].svc]

C28_CreateNoteEmbedUpsertRow ==
    [][/\ nt_ret'.op = "create_note" =>
             /\ \E n \in 1..3 :
                   Services(nt_ret'.calls) =
                       SubSeq(<<"get_embedding", "store_vector", "commit">>, 1, n)
             /\ \A k \in 1..Len(nt_ret'.calls) - 1 : nt_ret'.calls[k].ok
             /\ nt_ret'.outcome = "ok" <=>
                   (Len(nt_ret'.calls) = 3 /\ nt_ret'.calls[3].ok)
             /\ (Len(nt_ret'.calls) < 3 /\ ~nt_ret'.calls[Len(nt_ret'.calls)].ok) =>
                   (db_notes' = db_notes /\ points' = points)
       /\ \A id \in (DOMAIN db_notes') \ (DOMAIN db_notes) :
             /\ nt_ret'.op = "create_note" /\ nt_ret'.outcome = "ok"
             /\ nt_ret'.value = <<id>>
             /\ nt_ret'.calls[2].svc = "store_vector" /\ nt_ret'.calls[2].ok
             /\ nt_ret'.calls[2].id = <<db_notes'[id].vector_id>>
             /\ db_notes'[id].vector_id \in (DOMAIN points') \ (DOMAIN points)
             /\ points'[db_notes'[id].vector_id].payload.content = db_notes'[id].content
       /\ \A id \in (DOMAIN db_notes') \cap (DOMAIN db_notes) :
             db_notes'[id] = db_notes[id]]_vars

\* C28 witness: a second note has been created after a request whose
\* store_vector call failed; each row names the point of its own content.
C28_Witness ==
    /\ nt_ret.op = "create_note" /\ nt_ret.outcome = "ok"
    /\ uuids = 2 /\ note_ids = 1
    /\ DOMAIN db_notes = {1} /\ db_notes[1].vector_id = Uuid(2)
    /\ DOMAIN points = {Uuid(2)}

(***************************************************************************)
(* C29.  When delete_note completes without error for a note, the point    *)
(* named by the vector_id of the note is no longer in the vector store:    *)
(* the row is never removed while its vector remains.                      *)
(***************************************************************************)
C29_DeletedNoteLeavesNoVector ==
    (nt_ret.op = "delete_note" /\ nt_ret.outcome = "ok") =>
        /\ nt_ret.input[1] \notin DOMAIN db_notes
        /\ nt_ret.value[1] \notin DOMAIN points

====
